---- MODULE Spec2Model ----
(***************************************************************************)
(* A model of the Mini Meijer grocery simulator (linjewile/minimart):      *)
(*   - inventory.py: the chained HashMap, the Product records and the      *)
(*     catalog operations built on two HashMap instances;                  *)
(*   - simulate_shopping.py / gui.py: the demand model and the 7-day       *)
(*     scheduler (delivery, Friday sale, alcohol surge, time blocks,       *)
(*     overnight restock).                                                 *)
(* Strings that are hashed (keys, product IDs, category labels) are        *)
(* sequences of character codes, so that HashMap._hash is computed as the  *)
(* code computes it.  Prices are integer cents.                            *)
(***************************************************************************)
EXTENDS Integers, Sequences, FiniteSets, TLC

\* ------------------------------------------------------------------ bounds
\* Number of keys of KeyPool used by the HashMap specification.
MaxKeys == 4
\* Number of values of ValuePool stored by the HashMap specification.
MaxValue == 2
\* HashMap(size) is constructed with size in 1..MaxInitSize.
MaxInitSize == 3
\* Number of product IDs of IdPool that generate_id() draws from.
MaxIds == 1
\* Number of Product objects the catalog specification holds at a time.
MaxObjects == 1
\* The menu's restock calls stop at this quantity.
MaxRestocked == 10

\* Inventory loads and simulation runs of one session of the GUI.
MaxLoads == 2
MaxRuns == 1
\* SpecReload: simulation runs per behaviour.
MaxReruns == 2
\* Customers served per time block at most, and items per cart at most.
MaxBlockCustomers == 1
MaxCartItems == 1

\* Products in the catalogs the delivery specification starts from.
MaxDeliveryProducts == 3
\* SpecCart builds carts from catalogs of up to MaxCartProducts products.
MaxCartProducts == 3
\* SpecAdd: products in the catalog at the start, and entries of the
\* category index at most.
MaxAddProducts == 2
MaxIndexed == 3
MaxWeekCustomers == 2
\* SpecClearance: products in the catalog on the clearance day.
MaxSaleProducts == 6
\* SpecCheckout: products in the catalog, customers in the time block and
\* items per cart at most.
MaxCheckoutProducts == 2
MaxCheckoutCustomers == 2
MaxCheckoutCart == 2

\* Python's None, True and False where a call's result is recorded.
None == "None"
True == "True"
False == "False"

\* ------------------------------------------------------------ HashMap
\* A HashMap object is a record [size, count, buckets]; buckets is the list
\* of chains, each chain a sequence of Entry records [key, value].

LOAD_FACTOR_NUM == 3
LOAD_FACTOR_DEN == 4

Entry(key, value) == [key |-> key, value |-> value]

EmptyBuckets(size) == [i \in 1..size |-> <<>>]

HashMap_init(size) == [size |-> size, count |-> 0, buckets |-> EmptyBuckets(size)]

\* int(candidate ** 0.5)
RECURSIVE ISqrtFrom(_, _)
ISqrtFrom(n, r) == IF (r + 1) * (r + 1) > n THEN r ELSE ISqrtFrom(n, r + 1)
ISqrt(n) == ISqrtFrom(n, 0)

\* The inner loop of _next_prime: no odd i in 3..int(sqrt(candidate)) divides it.
TrialDivisionPrime(candidate) ==
    \A i \in 3..ISqrt(candidate) : (i % 2 = 1) => (candidate % i # 0)

RECURSIVE NextPrimeFrom(_)
NextPrimeFrom(candidate) ==
    IF TrialDivisionPrime(candidate) THEN candidate ELSE NextPrimeFrom(candidate + 2)

HashMap_next_prime_EvenCandidate(n) ==
    IF n <= 2 THEN 2 ELSE NextPrimeFrom(n)
HashMap_next_prime(n) ==
    IF n <= 2 THEN 2
    ELSE NextPrimeFrom(IF n % 2 # 0 THEN n ELSE n + 1)

\* total = total * 31 + ord(c) over the characters of key.  Python integers
\* do not overflow, so total % size at the end equals reducing modulo size
\* after every character, which keeps the numbers small here.
RECURSIVE HashTotal(_, _, _)
HashTotal(key, total, size) ==
    IF key = <<>> THEN total
    ELSE HashTotal(Tail(key), (total * 31 + Head(key)) % size, size)

\* The bucket index in 0..size-1.
HashMap_hash(key, size) == HashTotal(key, 0, size) % size

\* The chain the key hashes to (buckets is 1-based here).
BucketOf(h, key) == h.buckets[HashMap_hash(key, h.size) + 1]

\* Position of the first entry with this key in a chain, 0 when there is none.
IndexInChain(chain, key) ==
    IF \E i \in 1..Len(chain) : chain[i].key = key
    THEN CHOOSE i \in 1..Len(chain) :
            /\ chain[i].key = key
            /\ \A j \in 1..(i - 1) : chain[j].key # key
    ELSE 0

RemoveAt(s, i) == SubSeq(s, 1, i - 1) \o SubSeq(s, i + 1, Len(s))

\* Every Entry of buckets lo..hi, bucket by bucket, chain position by chain
\* position (the range is halved to keep the evaluation shallow).
RECURSIVE ConcatBuckets(_, _, _)
ConcatBuckets(buckets, lo, hi) ==
    IF lo > hi THEN <<>>
    ELSE IF lo = hi THEN buckets[lo]
    ELSE LET mid == (lo + hi) \div 2
         IN  ConcatBuckets(buckets, lo, mid) \o ConcatBuckets(buckets, mid + 1, hi)

HashMap_all_entries(h) == ConcatBuckets(h.buckets, 1, h.size)

RECURSIVE HashMap_set(_, _, _), HashMap_resize(_), Reinsert(_, _)

\* The loop of _resize: self.set(entry.key, entry.value) for every old entry.
Reinsert(h, entries) ==
    IF entries = <<>> THEN h
    ELSE Reinsert(HashMap_set(h, Head(entries).key, Head(entries).value),
                  Tail(entries))

HashMap_resize_Doubles(h) ==
    Reinsert(HashMap_init(h.size * 2), HashMap_all_entries(h))
HashMap_resize_NoRehash(h) == HashMap_init(HashMap_next_prime(h.size * 2))
HashMap_resize(h) ==
    Reinsert(HashMap_init(HashMap_next_prime(h.size * 2)), HashMap_all_entries(h))

HashMap_set_NoResize(h, key, value) ==
    LET b == HashMap_hash(key, h.size) + 1
        i == IndexInChain(h.buckets[b], key)
    IN  IF i # 0
        THEN [h EXCEPT !.buckets[b][i].value = value]
        ELSE [h EXCEPT !.buckets[b] = Append(@, Entry(key, value)), !.count = @ + 1]
HashMap_set(h, key, value) ==
    LET b == HashMap_hash(key, h.size) + 1
        i == IndexInChain(h.buckets[b], key)
    IN  IF i # 0
        THEN [h EXCEPT !.buckets[b][i].value = value]
        ELSE LET h1 == [h EXCEPT !.buckets[b] = Append(@, Entry(key, value)),
                                 !.count = @ + 1]
             IN  IF h1.count * LOAD_FACTOR_DEN > LOAD_FACTOR_NUM * h1.size
                 THEN HashMap_resize(h1)
                 ELSE h1

\* Whether get(key) finds an entry (its result "is not None").
HashMap_has(h, key) == IndexInChain(BucketOf(h, key), key) # 0

HashMap_get(h, key) ==
    LET chain == BucketOf(h, key)
        i == IndexInChain(chain, key)
    IN  IF i # 0 THEN chain[i].value ELSE None

\* The map after delete(key), and what delete returns.
HashMap_delete_DropsChain(h, key) ==
    LET b == HashMap_hash(key, h.size) + 1
        i == IndexInChain(h.buckets[b], key)
    IN  IF i # 0
        THEN [map |-> [h EXCEPT !.buckets[b] = <<>>, !.count = @ - 1], ret |-> True]
        ELSE [map |-> h, ret |-> False]
HashMap_delete_KeepCount(h, key) ==
    LET b == HashMap_hash(key, h.size) + 1
        i == IndexInChain(h.buckets[b], key)
    IN  IF i # 0
        THEN [map |-> [h EXCEPT !.buckets[b] = RemoveAt(@, i)], ret |-> True]
        ELSE [map |-> h, ret |-> False]
HashMap_delete(h, key) ==
    LET b == HashMap_hash(key, h.size) + 1
        i == IndexInChain(h.buckets[b], key)
    IN  IF i # 0
        THEN [map |-> [h EXCEPT !.buckets[b] = RemoveAt(@, i), !.count = @ - 1],
              ret |-> True]
        ELSE [map |-> h, ret |-> False]

\* ------------------------------------------------------------ Catalog
\* inventory maps a product ID to a Product object and categories maps a
\* category label to the list of product IDs registered under it.  Product
\* objects are mutated in place and handed out by reference, so they live in
\* a heap (a sequence indexed by object number) and the inventory entries,
\* carts and proposals hold object numbers.  A catalog is the record
\* [inventory, categories, heap].

INVENTORY_MAP_SIZE == 97
CATEGORIES_MAP_SIZE == 31
LOW_STOCK_THRESHOLD == 10

Product(product_id, name, price, quantity, category) ==
    [id |-> product_id, name |-> name, price |-> price,
     quantity |-> quantity, category |-> category]

\* An object nothing refers to any more; its fields can no longer be read.
Freed == Product(<<>>, "", 0, 0, <<>>)

EmptyCatalog ==
    [inventory |-> HashMap_init(INVENTORY_MAP_SIZE),
     categories |-> HashMap_init(CATEGORIES_MAP_SIZE),
     heap |-> <<>>]

\* [e.value for e in inventory.all_entries()]: the object numbers in
\* iteration order.
get_all_products(c) ==
    LET es == HashMap_all_entries(c.inventory)
    IN  [i \in 1..Len(es) |-> es[i].value]

\* The objects a sequence of object numbers refers to.
RefSet(refs) == {refs[i] : i \in 1..Len(refs)}

\* Objects referred to neither by the inventory nor by `held` are garbage.
Collect(c, held) ==
    LET live == RefSet(get_all_products(c)) \cup held
    IN  [c EXCEPT !.heap = [i \in 1..Len(c.heap) |->
                               IF i \in live THEN c.heap[i] ELSE Freed]]

\* Where a new object goes: memory freed earlier is used again.
Allocate(heap, obj) ==
    IF \E i \in 1..Len(heap) : heap[i] = Freed
    THEN LET at == CHOOSE i \in 1..Len(heap) :
                       heap[i] = Freed /\ \A k \in 1..(i - 1) : heap[k] # Freed
         IN  [heap |-> [heap EXCEPT ![at] = obj], oid |-> at]
    ELSE [heap |-> Append(heap, obj), oid |-> Len(heap) + 1]

\* The number of objects in use.
LiveObjects(heap) == Cardinality({i \in 1..Len(heap) : heap[i] # Freed})

validate_positive_AllowZero(value) == value >= 0
validate_positive(value) == value > 0

\* add_product with the ID generate_id() returned; out is what it reports.
add_product_NoValidation(c, product_id, name, price, quantity, category) ==
    LET new == Allocate(c.heap, Product(product_id, name, price, quantity, category))
        inv1 == HashMap_set(c.inventory, product_id, new.oid)
        cats1 == IF ~HashMap_has(c.categories, category)
                 THEN HashMap_set(c.categories, category, <<>>)
                 ELSE c.categories
        cats2 == HashMap_set(cats1, category,
                             Append(HashMap_get(cats1, category), product_id))
    IN  [cat |-> [inventory |-> inv1, categories |-> cats2, heap |-> new.heap],
         out |-> IF price < 0 \/ quantity < 0 THEN "ValidationError" ELSE "OK"]
add_product_KeepsOld(c, product_id, name, price, quantity, category) ==
    IF price < 0 \/ quantity < 0
    THEN [cat |-> c, out |-> "ValidationError"]
    ELSE IF HashMap_has(c.inventory, product_id)
    THEN [cat |-> c, out |-> "OK"]
    ELSE add_product_NoValidation(c, product_id, name, price, quantity, category)
add_product(c, product_id, name, price, quantity, category) ==
    IF price < 0 \/ quantity < 0
    THEN [cat |-> c, out |-> "ValidationError"]
    ELSE LET new == Allocate(c.heap, Product(product_id, name, price, quantity, category))
             heap1 == new.heap
             inv1 == HashMap_set(c.inventory, product_id, new.oid)
             cats1 == IF ~HashMap_has(c.categories, category)
                      THEN HashMap_set(c.categories, category, <<>>)
                      ELSE c.categories
             cats2 == HashMap_set(cats1, category,
                                  Append(HashMap_get(cats1, category), product_id))
         IN  [cat |-> [inventory |-> inv1, categories |-> cats2, heap |-> heap1],
              out |-> "OK"]

purchase_NoStockCheck(c, product_id, amount) ==
    IF ~HashMap_has(c.inventory, product_id)
    THEN [cat |-> c, out |-> "NotFound"]
    ELSE IF ~validate_positive(amount)
    THEN [cat |-> c, out |-> "InvalidAmount"]
    ELSE LET oid == HashMap_get(c.inventory, product_id)
         IN  [cat |-> [c EXCEPT !.heap[oid].quantity = @ - amount], out |-> "OK"]
purchase_OffByOne(c, product_id, amount) ==
    IF ~HashMap_has(c.inventory, product_id)
    THEN [cat |-> c, out |-> "NotFound"]
    ELSE IF ~validate_positive(amount)
    THEN [cat |-> c, out |-> "InvalidAmount"]
    ELSE LET oid == HashMap_get(c.inventory, product_id)
         IN  IF c.heap[oid].quantity <= amount
             THEN [cat |-> c, out |-> "InsufficientStock"]
             ELSE [cat |-> [c EXCEPT !.heap[oid].quantity = @ - amount], out |-> "OK"]
purchase(c, product_id, amount) ==
    IF ~HashMap_has(c.inventory, product_id)
    THEN [cat |-> c, out |-> "NotFound"]
    ELSE IF ~validate_positive(amount)
    THEN [cat |-> c, out |-> "InvalidAmount"]
    ELSE LET oid == HashMap_get(c.inventory, product_id)
         IN  IF c.heap[oid].quantity < amount
             THEN [cat |-> c, out |-> "InsufficientStock"]
             ELSE [cat |-> [c EXCEPT !.heap[oid].quantity = @ - amount], out |-> "OK"]

restock(c, product_id, amount) ==
    IF ~HashMap_has(c.inventory, product_id)
    THEN [cat |-> c, out |-> "NotFound"]
    ELSE IF ~validate_positive(amount)
    THEN [cat |-> c, out |-> "InvalidAmount"]
    ELSE LET oid == HashMap_get(c.inventory, product_id)
         IN  [cat |-> [c EXCEPT !.heap[oid].quantity = @ + amount], out |-> "OK"]

\* cat_list.remove(product_id): the first occurrence goes.
RemoveFirst(list, x) ==
    IF \E i \in 1..Len(list) : list[i] = x
    THEN RemoveAt(list, CHOOSE i \in 1..Len(list) :
                            list[i] = x /\ \A j \in 1..(i - 1) : list[j] # x)
    ELSE list

remove_product(c, product_id) ==
    IF ~HashMap_has(c.inventory, product_id)
    THEN [cat |-> c, out |-> "NotFound"]
    ELSE LET oid == HashMap_get(c.inventory, product_id)
             category == c.heap[oid].category
             cats1 == IF HashMap_has(c.categories, category)
                      THEN HashMap_set(c.categories, category,
                               RemoveFirst(HashMap_get(c.categories, category),
                                           product_id))
                      ELSE c.categories
         IN  [cat |-> [c EXCEPT !.categories = cats1,
                                !.inventory = HashMap_delete(c.inventory, product_id).map],
              out |-> "OK"]

update_price_ValidateFirst(c, product_id, new_price) ==
    IF new_price < 0
    THEN [cat |-> c, out |-> "ValidationError"]
    ELSE IF ~HashMap_has(c.inventory, product_id)
    THEN [cat |-> c, out |-> "NotFound"]
    ELSE LET oid == HashMap_get(c.inventory, product_id)
         IN  [cat |-> [c EXCEPT !.heap[oid].price = new_price], out |-> "OK"]
update_price(c, product_id, new_price) ==
    IF ~HashMap_has(c.inventory, product_id)
    THEN [cat |-> c, out |-> "NotFound"]
    ELSE IF new_price < 0
    THEN [cat |-> c, out |-> "ValidationError"]
    ELSE LET oid == HashMap_get(c.inventory, product_id)
         IN  [cat |-> [c EXCEPT !.heap[oid].price = new_price], out |-> "OK"]

get_low_stock_BelowOnly(c) ==
    SelectSeq(get_all_products(c),
              LAMBDA oid : c.heap[oid].quantity < LOW_STOCK_THRESHOLD)
\* The objects of the catalog at or below LOW_STOCK_THRESHOLD, in iteration
\* order.
get_low_stock(c) ==
    SelectSeq(get_all_products(c),
              LAMBDA oid : c.heap[oid].quantity <= LOW_STOCK_THRESHOLD)

\* ------------------------------------------------------- configuration
\* Category labels as character codes: they are keys of the categories map.
Dairy == <<68, 97, 105, 114, 121>>
Produce == <<80, 114, 111, 100, 117, 99, 101>>
Meat == <<77, 101, 97, 116>>
Bakery == <<66, 97, 107, 101, 114, 121>>
Beverages == <<66, 101, 118, 101, 114, 97, 103, 101, 115>>
Pantry == <<80, 97, 110, 116, 114, 121>>
Snacks == <<83, 110, 97, 99, 107, 115>>
Desserts == <<68, 101, 115, 115, 101, 114, 116, 115>>
Household == <<72, 111, 117, 115, 101, 104, 111, 108, 100>>
Alcohol == <<65, 108, 99, 111, 104, 111, 108>>

RESTOCK_TARGET == 50
DELIVERY_RESTOCK_MAX == 25
HIGH_STOCK_THRESHOLD == 50
\* SALE_DISCOUNT = 0.50, in percent.
SALE_DISCOUNT == 50

DAY_NAMES ==
    <<"Monday", "Tuesday", "Wednesday", "Thursday", "Friday", "Saturday", "Sunday">>

\* DAY_TRAFFIC in hundredths (0.8 is 80).
DAY_TRAFFIC ==
    [Monday |-> 80, Tuesday |-> 90, Wednesday |-> 85, Thursday |-> 95,
     Friday |-> 110, Saturday |-> 140, Sunday |-> 120]

\* WAREHOUSE_STOCK.items(), in the dictionary's order.
WAREHOUSE_STOCK ==
    << [category |-> Dairy, units |-> 60], [category |-> Produce, units |-> 80],
       [category |-> Meat, units |-> 40], [category |-> Bakery, units |-> 50],
       [category |-> Beverages, units |-> 70], [category |-> Pantry, units |-> 60],
       [category |-> Snacks, units |-> 40], [category |-> Desserts, units |-> 30] >>

DELIVERY_DAYS == {"Tuesday", "Friday"}

TIME_BLOCKS ==
    << [label |-> "Morning (7am - 9am)", customers |-> 8, max_cart |-> 4],
       [label |-> "Midday (11am - 1pm)", customers |-> 5, max_cart |-> 3],
       [label |-> "Evening (4pm - 7pm)", customers |-> 12, max_cart |-> 6],
       [label |-> "Night (8pm - 10pm)", customers |-> 3, max_cart |-> 3] >>

\* ALCOHOL_SURGE_RATES: day -> markup in percent, for the surge days
\* (Friday, Saturday, Sunday); 0 stands for "no entry" (.get() gives None).
ALCOHOL_SURGE_RATES ==
    [Monday |-> 0, Tuesday |-> 0, Wednesday |-> 0, Thursday |-> 0,
     Friday |-> 10, Saturday |-> 15, Sunday |-> 10]

\* round(x, 2) of the price num/den cents.  A price that lies exactly between
\* two cents is a binary float just above or just below the half, so round()
\* gives either neighbour.
RoundChoices(num, den) ==
    LET q == num \div den
        r == num % den
    IN  IF 2 * r < den THEN {q}
        ELSE IF 2 * r > den THEN {q + 1}
        ELSE {q, q + 1}

\* ------------------------------------------------------------ Scheduler
\* The products of one warehouse category that a delivery tops up: in the
\* catalog, of that category, at or below DELIVERY_RESTOCK_MAX.
products_in_cat_NoCeiling(c, category) ==
    SelectSeq(get_all_products(c), LAMBDA oid : c.heap[oid].category = category)
products_in_cat(c, category) ==
    SelectSeq(get_all_products(c),
              LAMBDA oid : /\ c.heap[oid].category = category
                           /\ c.heap[oid].quantity <= DELIVERY_RESTOCK_MAX)

\* The inner loop of the delivery: product i (0-based) of the eligible list
\* gets per_product, and one more when i < remainder; total_delivered counts
\* what was handed out.
RECURSIVE DeliverLoop(_, _, _, _, _, _)
DeliverLoop(heap, eligible, i, per_product, remainder, total_delivered) ==
    IF i > Len(eligible) THEN [heap |-> heap, delivered |-> total_delivered]
    ELSE LET amount == per_product + (IF i - 1 < remainder THEN 1 ELSE 0)
         IN  IF amount > 0
             THEN DeliverLoop([heap EXCEPT ![eligible[i]].quantity = @ + amount],
                              eligible, i + 1, per_product, remainder,
                              total_delivered + amount)
             ELSE DeliverLoop(heap, eligible, i + 1, per_product, remainder,
                              total_delivered)

deliver_category_AllToFirst(c, category, units) ==
    LET eligible == products_in_cat(c, category)
    IN  IF eligible = <<>> THEN [cat |-> c, delivered |-> 0]
        ELSE [cat |-> [c EXCEPT !.heap[eligible[1]].quantity = @ + units],
              delivered |-> units]
deliver_category_NoRemainder(c, category, units) ==
    LET eligible == products_in_cat(c, category)
    IN  IF eligible = <<>> THEN [cat |-> c, delivered |-> 0]
        ELSE LET r == DeliverLoop(c.heap, eligible, 1, units \div Len(eligible), 0, 0)
             IN  [cat |-> [c EXCEPT !.heap = r.heap], delivered |-> r.delivered]
deliver_category(c, category, units) ==
    LET eligible == products_in_cat(c, category)
    IN  IF eligible = <<>> THEN [cat |-> c, delivered |-> 0]
        ELSE LET r == DeliverLoop(c.heap, eligible, 1,
                                  units \div Len(eligible), units % Len(eligible), 0)
             IN  [cat |-> [c EXCEPT !.heap = r.heap], delivered |-> r.delivered]

\* The delivery truck: every warehouse category in turn.
RECURSIVE DeliveryFrom(_, _, _)
DeliveryFrom(c, k, total_delivered) ==
    IF k > Len(WAREHOUSE_STOCK) THEN [cat |-> c, delivered |-> total_delivered]
    ELSE LET one == deliver_category(c, WAREHOUSE_STOCK[k].category,
                                     WAREHOUSE_STOCK[k].units)
         IN  DeliveryFrom(one.cat, k + 1, total_delivered + one.delivered)

process_delivery(c) == DeliveryFrom(c, 1, 0)

\* friday_sale_suggestions(): the possible lists of (product, sale_price), one
\* per way the sale prices can round.
RECURSIVE SaleSuggestionsFrom(_, _, _)
SaleSuggestionsFrom(c, products, i) ==
    IF i > Len(products) THEN {<<>>}
    ELSE LET p == c.heap[products[i]]
             rest == SaleSuggestionsFrom(c, products, i + 1)
         IN  IF p.quantity >= HIGH_STOCK_THRESHOLD
             THEN { <<[p |-> products[i], price |-> sp]>> \o r :
                        sp \in RoundChoices(p.price * (100 - SALE_DISCOUNT), 100),
                        r \in rest }
             ELSE rest

friday_sale_suggestions(c) == SaleSuggestionsFrom(c, get_all_products(c), 1)

\* p.price = price for every (p, price) of a proposal.
RECURSIVE SetPrices(_, _)
SetPrices(heap, items) ==
    IF items = <<>> THEN heap
    ELSE SetPrices([heap EXCEPT ![Head(items).p].price = Head(items).price],
                   Tail(items))

apply_sales_Skip(c, suggestions) == c
apply_sales(c, suggestions) == [c EXCEPT !.heap = SetPrices(c.heap, suggestions)]

\* What the worker does with the answer to the Friday sale popup.
resolve_sale_IgnoreAnswer(c, suggestions, approved) == apply_sales(c, suggestions)
resolve_sale(c, suggestions, approved) ==
    IF approved = True THEN apply_sales(c, suggestions) ELSE c

\* The alcohol items and their surged prices, one list per way of rounding.
RECURSIVE AlcoholItemsFrom(_, _, _, _)
AlcoholItemsFrom(c, products, i, surge_rate) ==
    IF i > Len(products) THEN {<<>>}
    ELSE LET p == c.heap[products[i]]
             rest == AlcoholItemsFrom(c, products, i + 1, surge_rate)
         IN  IF p.category = Alcohol
             THEN { <<[p |-> products[i], price |-> np]>> \o r :
                        np \in RoundChoices(p.price * (100 + surge_rate), 100),
                        r \in rest }
             ELSE rest

alcohol_items_of(c, surge_rate) ==
    AlcoholItemsFrom(c, get_all_products(c), 1, surge_rate)

\* alcohol_originals[p.id] = p.price for every alcohol item: the dictionary as
\* a sequence of [id, price], a later entry for an id replacing an earlier.
RECURSIVE OriginalsOf(_, _)
OriginalsOf(heap, items) ==
    IF items = <<>> THEN <<>>
    ELSE <<[id |-> heap[Head(items).p].id, price |-> heap[Head(items).p].price]>>
         \o OriginalsOf(heap, Tail(items))

HasOriginal(originals, id) == \E i \in 1..Len(originals) : originals[i].id = id

OriginalPrice(originals, id) ==
    LET last == CHOOSE i \in 1..Len(originals) :
                    /\ originals[i].id = id
                    /\ \A j \in (i + 1)..Len(originals) : originals[j].id # id
    IN  originals[last].price

\* What the worker does with the answer to the surge popup: the catalog and
\* alcohol_originals afterwards.
resolve_surge(c, items, approved) ==
    IF approved = True
    THEN [cat |-> [c EXCEPT !.heap = SetPrices(c.heap, items)],
          originals |-> OriginalsOf(c.heap, items)]
    ELSE [cat |-> c, originals |-> <<>>]

\* End of day: every product of the inventory whose id is in alcohol_originals
\* gets its original price back.
revert_surge_Skip(c, originals) == c
revert_surge(c, originals) ==
    LET ps == RefSet(get_all_products(c))
    IN  [c EXCEPT !.heap = [oid \in 1..Len(c.heap) |->
            IF oid \in ps /\ HasOriginal(originals, c.heap[oid].id)
            THEN [c.heap[oid] EXCEPT !.price = OriginalPrice(originals, c.heap[oid].id)]
            ELSE c.heap[oid]]]

\* The overnight restock loop over get_low_stock().
RECURSIVE RestockLoop_UnitLot(_, _, _)
RestockLoop_UnitLot(heap, low, day_restocked) ==
    IF low = <<>> THEN [heap |-> heap, restocked |-> day_restocked]
    ELSE RestockLoop_UnitLot([heap EXCEPT ![Head(low)].quantity = @ + 1],
                             Tail(low), day_restocked + 1)
RECURSIVE RestockLoop(_, _, _)
RestockLoop(heap, low, day_restocked) ==
    IF low = <<>> THEN [heap |-> heap, restocked |-> day_restocked]
    ELSE LET restock_amount == RESTOCK_TARGET - heap[Head(low)].quantity
         IN  IF restock_amount > 0
             THEN RestockLoop([heap EXCEPT ![Head(low)].quantity = @ + restock_amount],
                              Tail(low), day_restocked + restock_amount)
             ELSE RestockLoop(heap, Tail(low), day_restocked)

overnight_restock(c) ==
    LET r == RestockLoop(c.heap, get_low_stock(c), 0)
    IN  [cat |-> [c EXCEPT !.heap = r.heap], restocked |-> r.restocked]

\* _auto_restock(): restock(p.id, amount) for every low product.
RECURSIVE AutoRestockLoop(_, _)
AutoRestockLoop(c, low) ==
    IF low = <<>> THEN c
    ELSE LET amount == RESTOCK_TARGET - c.heap[Head(low)].quantity
             c1 == IF amount > 0
                   THEN restock(c, c.heap[Head(low)].id, amount).cat
                   ELSE c
         IN  AutoRestockLoop(c1, Tail(low))

auto_restock(c) == AutoRestockLoop(c, get_low_stock(c))

\* max(1, int(block["customers"] * traffic))
scaled_customers(customers, traffic) ==
    LET n == (customers * traffic) \div 100
    IN  IF n < 1 THEN 1 ELSE n

\* HIGH_TRAFFIC_BLOCKS: for the high-traffic days, the customers and cart
\* limit of each time block, used in place of the traffic-scaled numbers.
\* The table is not among the sources; the scheduler reads it by day name and
\* block index, and a day without an entry gets the scaled numbers.
HIGH_TRAFFIC_BLOCKS ==
    [Friday   |-> << [customers |-> 10, max_cart |-> 5], [customers |-> 8, max_cart |-> 4],
                     [customers |-> 15, max_cart |-> 7], [customers |-> 5, max_cart |-> 4] >>,
     Saturday |-> << [customers |-> 12, max_cart |-> 5], [customers |-> 10, max_cart |-> 4],
                     [customers |-> 18, max_cart |-> 7], [customers |-> 6, max_cart |-> 4] >>,
     Sunday   |-> << [customers |-> 10, max_cart |-> 5], [customers |-> 8, max_cart |-> 4],
                     [customers |-> 14, max_cart |-> 7], [customers |-> 5, max_cart |-> 4] >>]

block_plan_AlwaysScaled(day_name, block_index) ==
    [customers |-> scaled_customers(TIME_BLOCKS[block_index + 1].customers,
                                    DAY_TRAFFIC[day_name]),
     max_cart |-> TIME_BLOCKS[block_index + 1].max_cart]
\* block_customers and block_max_cart for a block (block_index from 0).
block_plan(day_name, block_index) ==
    IF day_name \in DOMAIN HIGH_TRAFFIC_BLOCKS
    THEN HIGH_TRAFFIC_BLOCKS[day_name][block_index + 1]
    ELSE [customers |-> scaled_customers(TIME_BLOCKS[block_index + 1].customers,
                                         DAY_TRAFFIC[day_name]),
          max_cart |-> TIME_BLOCKS[block_index + 1].max_cart]

\* Rows of seed_inventory() (prices in cents), and an alcohol row for the
\* category the surge is about, which the seed list of the sources lacks.
SEED_MEAT ==
    << [name |-> "Salmon Fillet", price |-> 750, quantity |-> 25, category |-> Meat],
       [name |-> "Glizzy", price |-> 400, quantity |-> 30, category |-> Meat] >>

SEED_ALCOHOL ==
    << [name |-> "Craft Beer", price |-> 999, quantity |-> 40, category |-> Alcohol] >>

\* IDs are handed out per load, SeedWidth of them.
SeedWidth == Len(SEED_MEAT)

\* _load_inventory(): every entry deleted, count forced to 0.
RECURSIVE DeleteAll(_, _)
DeleteAll(h, entries) ==
    IF entries = <<>> THEN h
    ELSE DeleteAll(HashMap_delete(h, Head(entries).key).map, Tail(entries))

clear_inventory(c) ==
    [c EXCEPT !.inventory =
        [DeleteAll(c.inventory, HashMap_all_entries(c.inventory)) EXCEPT !.count = 0]]

\* seed_inventory() for the rows given, row i getting the ID ids[i].
RECURSIVE seed_inventory(_, _, _)
seed_inventory(c, rows, ids) ==
    IF rows = <<>> THEN c
    ELSE seed_inventory(
             add_product(c, Head(ids), Head(rows).name, Head(rows).price,
                         Head(rows).quantity, Head(rows).category).cat,
             Tail(rows), Tail(ids))

\* --------------------------------------------------------- Demand model
\* The categories the profiles weight, and each profile's time weights
\* (morning, midday, evening, night) and category weights in that order.
PROFILE_CATEGORIES ==
    <<Dairy, Bakery, Produce, Beverages, Meat, Pantry, Snacks, Desserts>>

SHOPPER_PROFILES ==
    [StayAtHomeParent |-> [time_weights |-> <<8, 3, 1, 0>>,
                           category_weights |-> <<8, 7, 7, 5, 6, 8, 5, 4>>],
     Retired          |-> [time_weights |-> <<3, 8, 2, 0>>,
                           category_weights |-> <<7, 8, 9, 6, 5, 7, 3, 4>>],
     Student          |-> [time_weights |-> <<1, 2, 8, 5>>,
                           category_weights |-> <<4, 5, 2, 8, 3, 7, 9, 7>>],
     OfficeWorker     |-> [time_weights |-> <<1, 1, 9, 2>>,
                           category_weights |-> <<6, 4, 7, 5, 8, 7, 4, 5>>],
     TradeWorker      |-> [time_weights |-> <<5, 1, 7, 1>>,
                           category_weights |-> <<5, 6, 4, 7, 8, 6, 6, 3>>],
     NightShift       |-> [time_weights |-> <<4, 0, 1, 8>>,
                           category_weights |-> <<5, 4, 3, 8, 4, 5, 8, 6>>]]

ProfileNames == DOMAIN SHOPPER_PROFILES

\* CONFIG["shopper_profiles"][name]["basket_size"]: (low, high).
BASKET_SIZE ==
    [StayAtHomeParent |-> [low |-> 3, high |-> 6],
     Retired          |-> [low |-> 2, high |-> 4],
     Student          |-> [low |-> 1, high |-> 5],
     OfficeWorker     |-> [low |-> 2, high |-> 10],
     TradeWorker      |-> [low |-> 2, high |-> 9],
     NightShift       |-> [low |-> 1, high |-> 4]]

\* The weight for unknown categories in pick_products_by_preference.
DEFAULT_CATEGORY_WEIGHT == 3

\* cat_weights.get(p.category, 3)
CategoryWeight(profile, category) ==
    IF \E i \in 1..Len(PROFILE_CATEGORIES) : PROFILE_CATEGORIES[i] = category
    THEN profile.category_weights[
             CHOOSE i \in 1..Len(PROFILE_CATEGORIES) : PROFILE_CATEGORIES[i] = category]
    ELSE DEFAULT_CATEGORY_WEIGHT

\* random.choices(population, weights): an element of positive weight; with
\* no positive weight it raises ValueError.
WeightedChoices(weights) == {i \in 1..Len(weights) : weights[i] > 0}

\* get_profile_for_time_block(block_index), block_index counted from 0: the
\* profiles it can return.
get_profile_for_time_block(block_index) ==
    {name \in ProfileNames : SHOPPER_PROFILES[name].time_weights[block_index + 1] > 0}

\* random.choices(profile_names, weights=weights, k=1)[0]: a profile of
\* positive weight; with no positive weight random.choices raises ValueError.
choose_profile(time_weights, block_index) ==
    LET positive == {name \in DOMAIN time_weights : time_weights[name][block_index + 1] > 0}
    IN  IF positive = {}
        THEN {[raised |-> TRUE, name |-> "none"]}
        ELSE {[raised |-> FALSE, name |-> name] : name \in positive}

\* The sampling loop of pick_products_by_preference: the carts that n more
\* draws can add, each with whether random.choices raised.
RECURSIVE Draws(_, _, _)
Draws(available, available_weights, n) ==
    IF n = 0 \/ available = <<>> THEN {[cart |-> <<>>, raised |-> FALSE]}
    ELSE IF WeightedChoices(available_weights) = {}
    THEN {[cart |-> <<>>, raised |-> TRUE]}
    ELSE UNION { { [cart |-> <<available[i]>> \o r.cart, raised |-> r.raised] :
                     r \in Draws(RemoveAt(available, i),
                                 RemoveAt(available_weights, i), n - 1) } :
                 i \in WeightedChoices(available_weights) }

Min(a, b) == IF a < b THEN a ELSE b

\* The results pick_products_by_preference(products, profile, max_items) can
\* have; products is a list of object numbers of heap.
pick_products_by_preference_WithReplacement(heap, products, profile, max_items) ==
    IF products = <<>> THEN {[cart |-> <<>>, raised |-> FALSE]}
    ELSE { [cart |-> [i \in 1..n |-> products[1]], raised |-> FALSE] :
               n \in 1..Min(max_items, Len(products)) }
pick_products_by_preference(heap, products, profile, max_items) ==
    IF products = <<>> THEN {[cart |-> <<>>, raised |-> FALSE]}
    ELSE LET weights == [i \in 1..Len(products) |->
                            CategoryWeight(profile, heap[products[i]].category)]
             hi == Min(max_items, Len(products))
         IN  IF hi < 1
             THEN {[cart |-> <<>>, raised |-> TRUE]}
             ELSE UNION { Draws(products, weights, num_items) : num_items \in 1..hi }

\* CONFIG["purchase_tiers"]
PURCHASE_TIERS ==
    << [chance |-> 60, min |-> 1, max |-> 3],
       [chance |-> 30, min |-> 4, max |-> 6],
       [chance |-> 10, min |-> 7, max |-> 12] >>

\* roll = random.randint(0, 99)
Rolls == 0..99

\* The body of random_purchase_amount() after the roll: the quantities the
\* branch taken can return.
amounts_for_roll_FromZero(roll) ==
    IF roll < 60 THEN 0..3
    ELSE IF roll < 90 THEN 4..6
    ELSE 7..12

amounts_for_roll(roll) ==
    IF roll < 60 THEN 1..3
    ELSE IF roll < 90 THEN 4..6
    ELSE 7..12

\* The quantities random_purchase_amount() can return: those of the three
\* branches (60%: 1-3, 30%: 4-6, 10%: 7-12).
random_purchase_amount == UNION {amounts_for_roll(roll) : roll \in Rolls}

\* ---------------------------------------------------------------- state
VARIABLES
    store, shadow, lastOp,          \* a HashMap on its own, its abstract map, the last call
    inventory, categories, heap,    \* the catalog: inventory.inventory, inventory.categories, the Product objects
    lastCall,                       \* the catalog call or scheduler step just made
    sim_running, load_btn, run_btn, \* MiniMeijerApp: the flag and the state of the two buttons
    queue,                          \* callbacks posted with root.after(0, ...) and not yet run
    sale_suggestions, sale_approved,            \* self._sale_suggestions, self._sale_approved
    alcohol_surge_items, alcohol_surge_approved,\* self._alcohol_surge_items, self._alcohol_surge_approved
    pc, day_index, block_index,     \* the worker thread: where it is in _run_simulation
    block_customers, block_max_cart, j, cart,   \* its locals in the block and customer loops
    alcohol_originals,              \* its local alcohol_originals (product id -> original price)
    lastStep, pre_surge, runs, loads,           \* history: the step just taken, prices at the surge proposal, counters
    cartIn, cartOut,                \* one call of pick_products_by_preference: arguments and result
    week_failed, week_items_sold, week_revenue, \* simulate(): the week's counters
    loading,                        \* the foreground is in _load_inventory, between clearing and seeding
    report_data                     \* simulate(): the tallies that end up in report_data

storeVars == <<store, shadow, lastOp>>
catVars == <<inventory, categories, heap>>
guiVars == <<sim_running, load_btn, run_btn, queue, sale_suggestions, sale_approved,
             alcohol_surge_items, alcohol_surge_approved>>
workerVars == <<pc, day_index, block_index, block_customers, block_max_cart, j, cart,
                alcohol_originals>>
histVars == <<lastStep, pre_surge, runs, loads>>
cartVars == <<cartIn, cartOut, week_failed, week_items_sold, week_revenue, loading,
              report_data>>
vars == <<storeVars, catVars, lastCall, guiVars, workerVars, histVars, cartVars>>

\* The catalog as one value, and its assignment.
Cat == [inventory |-> inventory, categories |-> categories, heap |-> heap]

SetCat(c) ==
    /\ inventory' = c.inventory
    /\ categories' = c.categories
    /\ heap' = c.heap

NoCall == [op |-> "none", id |-> <<>>, amount |-> 0, price |-> 0, out |-> "none", before |-> 0,
           afterSellOut |-> FALSE]
NoStep == [name |-> "none", info |-> <<>>]

\* The values of the variables a specification does not use.
StoreIdle ==
    /\ store = HashMap_init(1)
    /\ shadow = <<>>
    /\ lastOp = [op |-> "none"]

CatalogEmpty ==
    /\ inventory = EmptyCatalog.inventory
    /\ categories = EmptyCatalog.categories
    /\ heap = EmptyCatalog.heap

AppIdle ==
    /\ sim_running = FALSE /\ load_btn = "normal" /\ run_btn = "normal"
    /\ queue = <<>>
    /\ sale_suggestions = <<>> /\ sale_approved = None
    /\ alcohol_surge_items = <<>> /\ alcohol_surge_approved = None
    /\ pc = "idle" /\ day_index = 0 /\ block_index = 0
    /\ block_customers = 0 /\ block_max_cart = 0 /\ j = 0 /\ cart = <<>>
    /\ alcohol_originals = <<>>
    /\ lastStep = NoStep /\ pre_surge = <<>> /\ runs = 0 /\ loads = 0

CartIdle ==
    /\ cartIn = <<>> /\ cartOut = <<>>
    /\ week_failed = 0 /\ week_items_sold = 0 /\ week_revenue = 0
    /\ loading = FALSE
    /\ report_data = <<>>

\* ------------------------------------------------- HashMap specification
\* String keys "a", "b", "ab", "ba", "bb", "aa" as character codes.
KeyPool == << <<97>>, <<98>>, <<97, 98>>, <<98, 97>>, <<98, 98>>, <<97, 97>> >>
Keys == {KeyPool[i] : i \in 1..MaxKeys}
ValuePool == <<"v1", "v2", "v3", "v4">>
Values == {ValuePool[i] : i \in 1..MaxValue}

\* lastOp records the call just made: its arguments, what it returned, and the
\* bucket count before it.
NoOp == [op |-> "init", key |-> <<>>, value |-> None, ret |-> None, sizeBefore |-> 0]

StoreInit ==
    /\ \E size \in 1..MaxInitSize : store = HashMap_init(size)
    /\ shadow = [k \in Keys |-> None]
    /\ lastOp = NoOp
    /\ CatalogEmpty /\ lastCall = NoCall /\ AppIdle /\ CartIdle

StoreSet ==
    \E k \in Keys, v \in Values :
        /\ store' = HashMap_set(store, k, v)
        /\ shadow' = [shadow EXCEPT ![k] = v]
        /\ lastOp' = [op |-> "set", key |-> k, value |-> v, ret |-> None,
                      sizeBefore |-> store.size]
        /\ UNCHANGED <<catVars, lastCall, guiVars, workerVars, histVars, cartVars>>

StoreGet ==
    \E k \in Keys :
        /\ lastOp' = [op |-> "get", key |-> k, value |-> None,
                      ret |-> HashMap_get(store, k), sizeBefore |-> store.size]
        /\ UNCHANGED <<store, shadow>>
        /\ UNCHANGED <<catVars, lastCall, guiVars, workerVars, histVars, cartVars>>

StoreDelete ==
    \E k \in Keys :
        LET r == HashMap_delete(store, k)
        IN  /\ store' = r.map
            /\ shadow' = [shadow EXCEPT ![k] = None]
            /\ lastOp' = [op |-> "delete", key |-> k, value |-> None, ret |-> r.ret,
                          sizeBefore |-> store.size]
            /\ UNCHANGED <<catVars, lastCall, guiVars, workerVars, histVars, cartVars>>

StoreNext == StoreSet \/ StoreGet \/ StoreDelete

SpecStore == StoreInit /\ [][StoreNext]_vars

\* The sum of the chain lengths of a bucket array.
RECURSIVE SumChainLengths(_, _)
SumChainLengths(buckets, i) ==
    IF i > Len(buckets) THEN 0
    ELSE Len(buckets[i]) + SumChainLengths(buckets, i + 1)

IsPrime(n) == n > 1 /\ \A d \in 2..(n - 1) : n % d # 0

\* C1: after any sequence of set and delete calls (resizing sets included),
\* count equals the number of entries all_entries() yields, which is the sum
\* of the chain lengths.
C1_CountMatchesEntries ==
    /\ store.count = Len(HashMap_all_entries(store))
    /\ store.count = SumChainLengths(store.buckets, 1)

\* C1 witness: a delete has just removed an entry of a map that has been
\* resized and still holds entries.
C1_Witness ==
    /\ lastOp.op = "delete" /\ lastOp.ret = True
    /\ store.size > MaxInitSize
    /\ store.count >= 2

\* C2: a set of a new key that pushes count/size above 0.75 leaves a strictly
\* larger, prime bucket count, and every key retrievable before the call, and
\* the key just set, is retrievable afterwards with its value.
C2_ResizeKeepsEntries ==
    [][ ( /\ lastOp'.op = "set"
          /\ HashMap_get(store, lastOp'.key) = None
          /\ (store.count + 1) * LOAD_FACTOR_DEN > LOAD_FACTOR_NUM * store.size )
        => ( /\ store'.size > store.size
             /\ IsPrime(store'.size)
             /\ HashMap_get(store', lastOp'.key) = lastOp'.value
             /\ \A k \in Keys \ {lastOp'.key} :
                    HashMap_get(store, k) # None
                        => HashMap_get(store', k) = HashMap_get(store, k) )
      ]_vars

\* C2 witness: a set has just grown a map that holds at least three entries.
C2_Witness ==
    /\ lastOp.op = "set"
    /\ store.size > lastOp.sizeBefore
    /\ store.count >= 3

\* C3: the store behaves like an abstract map: get(k) is the value of the
\* latest set(k, v) not followed by delete(k), and None when k was never set
\* or has been deleted, also across resizes.
C3_RefinesAbstractMap ==
    /\ \A k \in Keys : HashMap_get(store, k) = shadow[k]
    /\ lastOp.op = "get" => lastOp.ret = shadow[lastOp.key]

\* C3 witness: a get has just returned a stored value from a resized map
\* from which another key has been deleted or was never set.
C3_Witness ==
    /\ lastOp.op = "get" /\ lastOp.ret # None
    /\ store.size > MaxInitSize
    /\ \E k \in Keys : shadow[k] = None

\* C11: immediately after any set call returns, count / size is at most
\* LOAD_FACTOR_THRESHOLD (0.75), whatever positive bucket count the store was
\* created with.
C11_LoadFactorBounded ==
    lastOp.op = "set" =>
        store.count * LOAD_FACTOR_DEN <= LOAD_FACTOR_NUM * store.size

\* C11 witness: a set of a new key has just filled a two-bucket store to
\* count = size and returned with the store resized.
C11_Witness ==
    /\ lastOp.op = "set"
    /\ lastOp.sizeBefore = 2
    /\ store.count = lastOp.sizeBefore
    /\ store.size > lastOp.sizeBefore


\* C19: delete(key) returns True exactly when key is in the map; then the key
\* is gone afterwards, count is one less, the bucket count is the same and
\* every other key still has its value; when key is not in the map it
\* returns False and the map (count, size, every chain) is unchanged.
C19_DeleteContract ==
    [][ lastOp'.op = "delete" =>
            LET key == lastOp'.key
            IN  IF HashMap_has(store, key)
                THEN /\ lastOp'.ret = True
                     /\ ~HashMap_has(store', key)
                     /\ store'.count = store.count - 1
                     /\ store'.size = store.size
                     /\ \A k \in Keys \ {key} :
                            HashMap_get(store', k) = HashMap_get(store, k)
                ELSE /\ lastOp'.ret = False
                     /\ store' = store ]_vars

\* C19 witness: a key has just been deleted from a chain that still holds
\* another key.
C19_Witness ==
    /\ lastOp.op = "delete" /\ lastOp.ret = True
    /\ \E k \in Keys \ {lastOp.key} :
           /\ HashMap_has(store, k)
           /\ HashMap_hash(k, store.size) = HashMap_hash(lastOp.key, store.size)

\* p is the smallest prime greater than or equal to n.
LeastPrimeAtLeast(n, p) == p >= n /\ IsPrime(p) /\ \A q \in n..(p - 1) : ~IsPrime(q)

MkId(ch) == <<77, 77, 45, ch, ch, ch, ch, ch, ch>>
IdPool(n) == MkId(64 + n)
Ids == {IdPool(n) : n \in 1..MaxIds}
\* The IDs the calls are tried with: one more than can be in the catalog.
CallIds == Ids \cup {IdPool(MaxIds + 1)}

\* The arguments the calls are tried with; prices in cents.
PriceInputs == {-1, 0, 5}
QuantityInputs == {-1, 0, 5}
AmountInputs == {-1, 0, 5}
CategoryInputs == {Desserts, Alcohol}
SurgeRates == {ALCOHOL_SURGE_RATES[d] : d \in DOMAIN ALCOHOL_SURGE_RATES} \ {0}

\* The quantity of the product with this id, 0 when there is none.
QuantityOf(c, product_id) ==
    IF HashMap_has(c.inventory, product_id)
    THEN c.heap[HashMap_get(c.inventory, product_id)].quantity
    ELSE 0

\* The last call: its arguments (amount is the quantity of an add_product),
\* what it reported, and for a purchase the quantity it found.
Call(op, product_id, amount, price, out) ==
    [op |-> op, id |-> product_id, amount |-> amount, price |-> price, out |-> out,
     before |-> IF op = "purchase" THEN QuantityOf(Cat, product_id) ELSE 0,
     afterSellOut |-> /\ lastCall.op = "purchase" /\ lastCall.out = "OK"
                      /\ lastCall.id = product_id
                      /\ lastCall.before = lastCall.amount]

CatalogInit ==
    /\ CatalogEmpty
    /\ lastCall = NoCall
    /\ StoreIdle /\ AppIdle /\ CartIdle

CatalogFrame ==
    UNCHANGED <<storeVars, guiVars, pc, day_index, block_index, block_customers,
                block_max_cart, j, cart, histVars, cartVars>>

AddProduct ==
    \E product_id \in Ids, price \in PriceInputs, quantity \in QuantityInputs,
       category \in CategoryInputs :
        /\ LiveObjects(heap) < MaxObjects \/ price < 0 \/ quantity < 0
        /\ LET r == add_product(Cat, product_id, "Item", price, quantity, category)
           IN  /\ SetCat(Collect(r.cat, {}))
               /\ lastCall' = Call("add_product", <<>>, quantity, price, r.out)
        /\ CatalogFrame /\ UNCHANGED alcohol_originals

Purchase ==
    \E product_id \in CallIds, amount \in AmountInputs :
        /\ LET r == purchase(Cat, product_id, amount)
           IN  /\ SetCat(r.cat)
               /\ lastCall' = Call("purchase", product_id, amount, 0, r.out)
        /\ CatalogFrame /\ UNCHANGED alcohol_originals

Restock ==
    \E product_id \in CallIds, amount \in AmountInputs :
        /\ QuantityOf(Cat, product_id) + amount <= MaxRestocked
        /\ LET r == restock(Cat, product_id, amount)
           IN  /\ SetCat(r.cat)
               /\ lastCall' = Call("restock", product_id, amount, 0, r.out)
        /\ CatalogFrame /\ UNCHANGED alcohol_originals

UpdatePrice ==
    \E product_id \in CallIds, new_price \in PriceInputs :
        /\ LET r == update_price(Cat, product_id, new_price)
           IN  /\ SetCat(r.cat)
               /\ lastCall' = Call("update_price", product_id, 0, new_price, r.out)
        /\ CatalogFrame /\ UNCHANGED alcohol_originals

RemoveProduct ==
    \E product_id \in CallIds :
        /\ LET r == remove_product(Cat, product_id)
           IN  /\ SetCat(Collect(r.cat, {}))
               /\ lastCall' = Call("remove_product", product_id, 0, 0, r.out)
        /\ CatalogFrame /\ UNCHANGED alcohol_originals

\* The scheduler's steps on the catalog, in any order: the delivery, the
\* clearance sale with its answer, the overnight restock.
StepDelivery ==
    /\ SetCat(process_delivery(Cat).cat)
    /\ lastCall' = Call("delivery", <<>>, 0, 0, "OK")
    /\ CatalogFrame /\ UNCHANGED alcohol_originals

StepClearance ==
    \E suggestions \in friday_sale_suggestions(Cat), approved \in {True, False} :
        /\ suggestions # <<>>
        /\ SetCat(resolve_sale(Cat, suggestions, approved))
        /\ lastCall' = Call("clearance", <<>>, 0, 0, approved)
        /\ CatalogFrame /\ UNCHANGED alcohol_originals

StepOvernightRestock ==
    /\ SetCat(overnight_restock(Cat).cat)
    /\ lastCall' = Call("overnight_restock", <<>>, 0, 0, "OK")
    /\ CatalogFrame /\ UNCHANGED alcohol_originals

\* The surge of a day: proposed and answered at its start, reverted at its end.
StepSurge ==
    \E surge_rate \in SurgeRates, approved \in {True, False} :
        \E items \in alcohol_items_of(Cat, surge_rate) :
            /\ alcohol_originals = <<>>
            /\ items # <<>>
            /\ LET r == resolve_surge(Cat, items, approved)
               IN  /\ SetCat(r.cat)
                   /\ alcohol_originals' = r.originals
            /\ lastCall' = Call("surge", <<>>, 0, 0, approved)
            /\ CatalogFrame

StepRevertSurge ==
    /\ alcohol_originals # <<>>
    /\ SetCat(revert_surge(Cat, alcohol_originals))
    /\ alcohol_originals' = <<>>
    /\ lastCall' = Call("revert_surge", <<>>, 0, 0, "OK")
    /\ CatalogFrame

CatalogNext ==
    \/ AddProduct \/ Purchase \/ Restock \/ UpdatePrice \/ RemoveProduct
    \/ StepDelivery \/ StepClearance \/ StepSurge \/ StepRevertSurge
    \/ StepOvernightRestock

SpecCatalog == CatalogInit /\ [][CatalogNext]_vars

\* The products of the catalog: the objects the inventory map holds.
Products == RefSet(get_all_products(Cat))

\* C4: every product of the catalog has quantity >= 0 and price >= 0 after
\* any sequence of add_product, purchase, restock, update_price and
\* remove_product calls (invalid ones rejected) and of delivery, clearance,
\* surge, surge-revert and overnight-restock steps; a successful purchase never
\* took more than was there.
C4_NonNegative ==
    /\ \A oid \in Products : heap[oid].quantity >= 0 /\ heap[oid].price >= 0
    /\ (lastCall.op = "purchase" /\ lastCall.out = "OK")
           => lastCall.before - lastCall.amount >= 0

\* C4 witness: an update_price call with a negative price has just been
\* rejected on a catalog whose product is sold out and costs nothing.
C4_Witness ==
    /\ lastCall.op = "update_price" /\ lastCall.out = "ValidationError"
    /\ \E oid \in Products : heap[oid].quantity = 0 /\ heap[oid].price = 0

\* C5: purchase(id, amount) succeeds exactly when the product exists,
\* amount > 0 and quantity >= amount; it then takes exactly amount from that
\* product and touches nothing else, and a rejected call changes nothing.  So
\* buying the whole stock leaves 0, and buying 1 or more at quantity 0 is
\* rejected for insufficient stock with the quantity still 0.
C5_PurchaseContract ==
    [][ lastCall'.op = "purchase" =>
          LET product_id == lastCall'.id
              amount == lastCall'.amount
              exists == HashMap_has(inventory, product_id)
              quantity == QuantityOf(Cat, product_id)
              oid == HashMap_get(inventory, product_id)
          IN  /\ (lastCall'.out = "OK") <=> (exists /\ amount > 0 /\ quantity >= amount)
              /\ (lastCall'.out = "OK") =>
                    /\ heap' = [heap EXCEPT ![oid].quantity = quantity - amount]
                    /\ inventory' = inventory /\ categories' = categories
                    /\ (quantity = amount => heap'[oid].quantity = 0)
              /\ (lastCall'.out # "OK") => UNCHANGED catVars
              /\ (exists /\ quantity = 0 /\ amount >= 1) =>
                    /\ lastCall'.out = "InsufficientStock"
                    /\ heap'[oid].quantity = 0
      ]_vars

\* C5 witness: the product's whole stock was bought, and the purchase that
\* followed has just been rejected for insufficient stock, the quantity 0.
C5_Witness ==
    /\ lastCall.op = "purchase" /\ lastCall.out = "InsufficientStock"
    /\ lastCall.afterSellOut /\ lastCall.amount >= 1
    /\ QuantityOf(Cat, lastCall.id) = 0 /\ HashMap_has(inventory, lastCall.id)


\* C16: purchase, restock, remove_product and update_price called with a
\* product ID that is not in the catalog report NotFound and leave the by-ID
\* store, the category index and every product object as they were.
C16_UnknownIdNotFound ==
    [][ (/\ lastCall'.op \in {"purchase", "restock", "remove_product", "update_price"}
         /\ ~HashMap_has(inventory, lastCall'.id))
        => /\ lastCall'.out = "NotFound"
           /\ UNCHANGED <<inventory, categories, heap>> ]_vars

\* C16 witness: remove_product has just reported NotFound for an ID that is
\* not in a catalog that holds a product.
C16_Witness ==
    /\ lastCall.op = "remove_product"
    /\ lastCall.out = "NotFound"
    /\ ~HashMap_has(inventory, lastCall.id)
    /\ inventory.count >= 1

\* C17: purchase and restock called with amount <= 0, and update_price called
\* with a negative price, do not succeed and change nothing; for a product
\* that is in the catalog what they report is the validation error
\* (InvalidAmount, or ValidationError for the price), and for an ID that is
\* not it is NotFound.
C17_InvalidArgumentRejected ==
    [][ (\/ lastCall'.op \in {"purchase", "restock"} /\ lastCall'.amount <= 0
         \/ lastCall'.op = "update_price" /\ lastCall'.price < 0)
        => /\ UNCHANGED <<inventory, categories, heap>>
           /\ lastCall'.out =
                  IF ~HashMap_has(inventory, lastCall'.id) THEN "NotFound"
                  ELSE IF lastCall'.op = "update_price" THEN "ValidationError"
                  ELSE "InvalidAmount" ]_vars

\* C17 witness: restock with amount 0 of a product in stock has just reported
\* InvalidAmount.
C17_Witness ==
    /\ lastCall.op = "restock"
    /\ lastCall.amount = 0
    /\ lastCall.out = "InvalidAmount"
    /\ HashMap_has(inventory, lastCall.id)
    /\ heap[HashMap_get(inventory, lastCall.id)].quantity > 0

\* C18: add_product with price < 0 or quantity < 0 reports ValidationError
\* and stores nothing: the by-ID store (its count, size and entries), every
\* category list and every product object are as before the call.
C18_InvalidAddStoresNothing ==
    [][ (/\ lastCall'.op = "add_product"
         /\ lastCall'.price < 0 \/ lastCall'.amount < 0)
        => /\ lastCall'.out = "ValidationError"
           /\ UNCHANGED <<inventory, categories, heap>> ]_vars

\* C18 witness: add_product with a negative price has just reported
\* ValidationError on a catalog that holds a product.
C18_Witness ==
    /\ lastCall.op = "add_product"
    /\ lastCall.price < 0 /\ lastCall.amount > 0
    /\ lastCall.out = "ValidationError"
    /\ inventory.count >= 1
\* ------------------------------------------------------ Add specification
\* add_product on a small catalog, with every ID generate_id() can return:
\* one that is free and one that a product of the catalog already has
\* (generate_id() draws at random and does not look at the catalog).
AddRows ==
    { [name |-> "Old", price |-> 5, quantity |-> quantity, category |-> cat] :
          quantity \in {0, 5}, cat \in {Desserts, Snacks} }
GeneratedIds == {IdPool(n) : n \in 1..(MaxAddProducts + 1)}

\* The number of IDs registered in the category index.
Indexed(cats) == SumChainLengths([i \in 1..Len(HashMap_all_entries(cats)) |->
                                     HashMap_all_entries(cats)[i].value], 1)

AddInit ==
    /\ \E n \in 0..MaxAddProducts :
          \E rows \in [1..n -> AddRows] :
              LET c == seed_inventory(EmptyCatalog, rows, [i \in 1..n |-> IdPool(i)])
              IN  /\ inventory = c.inventory
                  /\ categories = c.categories
                  /\ heap = c.heap
    /\ lastCall = NoCall
    /\ StoreIdle /\ AppIdle /\ CartIdle

AddGenerated ==
    \E product_id \in GeneratedIds, price \in {0, 7}, quantity \in {0, 9},
       category \in {Desserts, Snacks} :
        /\ Indexed(categories) < MaxIndexed
        /\ LET r == add_product(Cat, product_id, "New", price, quantity, category)
           IN  /\ SetCat(Collect(r.cat, {}))
               /\ lastCall' = Call("add_product", product_id, quantity, price, r.out)
        /\ CatalogFrame /\ UNCHANGED alcohol_originals

SpecAdd == AddInit /\ [][AddGenerated]_vars

\* C24: add_product with an ID a product of the catalog already has puts the
\* new product in the place of the old one: the count of the inventory map is
\* the same as before, the lookup of the ID gives the new product, every other
\* product is as it was, and the call succeeds with that ID.
C24_CollidingAddOverwrites ==
    [][ ( /\ lastCall'.op = "add_product"
          /\ lastCall'.price >= 0 /\ lastCall'.amount >= 0
          /\ HashMap_has(inventory, lastCall'.id) )
        => /\ lastCall'.out = "OK"
           /\ inventory'.count = inventory.count
           /\ HashMap_has(inventory', lastCall'.id)
           /\ LET product == heap'[HashMap_get(inventory', lastCall'.id)]
              IN  /\ product.id = lastCall'.id
                  /\ product.name = "New"
                  /\ product.price = lastCall'.price
                  /\ product.quantity = lastCall'.amount
           /\ \A product_id \in GeneratedIds \ {lastCall'.id} :
                  /\ HashMap_has(inventory', product_id) = HashMap_has(inventory, product_id)
                  /\ HashMap_has(inventory, product_id)
                         => heap'[HashMap_get(inventory', product_id)]
                                = heap[HashMap_get(inventory, product_id)] ]_vars

\* A second product was put under the ID of a catalog of two products.
C24_Witness ==
    /\ lastCall.op = "add_product" /\ lastCall.out = "OK"
    /\ lastCall.id = IdPool(1)
    /\ inventory.count = 2
    /\ Indexed(categories) = 3
    /\ heap[HashMap_get(inventory, IdPool(1))].name = "New"
    /\ heap[HashMap_get(inventory, IdPool(2))].name = "Old"

\* ------------------------------------------------ Delivery specification
\* process_delivery on the morning of a delivery day, from catalogs of up to
\* MaxDeliveryProducts products: around the eligibility ceiling, in two
\* warehouse categories (allotments 40 and 50) and one without allotment.
DeliveryQuantities == {DELIVERY_RESTOCK_MAX - 5, DELIVERY_RESTOCK_MAX, DELIVERY_RESTOCK_MAX + 1}
DeliveryCategories == {Meat, Bakery, Household}
DeliveryRows ==
    { [name |-> "Item", price |-> 400, quantity |-> q, category |-> cat] :
          q \in DeliveryQuantities, cat \in DeliveryCategories }

DeliveryInit ==
    /\ \E n \in 0..MaxDeliveryProducts :
          \E rows \in [1..n -> DeliveryRows] :
              LET c == seed_inventory(EmptyCatalog, rows, [i \in 1..n |-> IdPool(i)])
              IN  /\ inventory = c.inventory
                  /\ categories = c.categories
                  /\ heap = c.heap
    /\ AppIdle
    /\ StoreIdle /\ lastCall = NoCall /\ CartIdle

\* The truck of a delivery day (Tuesday, then Friday).
DeliveryDay ==
    /\ SetCat(process_delivery(Cat).cat)
    /\ lastStep' = [name |-> "delivery",
                    info |-> [k \in 1..Len(WAREHOUSE_STOCK) |->
                                 Len(products_in_cat(Cat, WAREHOUSE_STOCK[k].category))]]
    /\ UNCHANGED <<storeVars, lastCall, guiVars, workerVars, pre_surge, runs, loads,
                   cartVars>>

SpecDelivery == DeliveryInit /\ [][DeliveryDay]_vars

\* The units the products of a list gained between two heaps.
RECURSIVE SumIncrements(_, _, _, _)
SumIncrements(products, before, after, i) ==
    IF i > Len(products) THEN 0
    ELSE (after[products[i]].quantity - before[products[i]].quantity)
         + SumIncrements(products, before, after, i + 1)

\* C6: a delivery gives every warehouse category with at least one eligible
\* product exactly its allotment: the quantity increments of the category's
\* eligible products add up to U.
C6_DeliveryConservation ==
    [][ lastStep'.name = "delivery" =>
          \A k \in 1..Len(WAREHOUSE_STOCK) :
              LET eligible == products_in_cat(Cat, WAREHOUSE_STOCK[k].category)
              IN  Len(eligible) >= 1 =>
                      SumIncrements(eligible, heap, heap', 1) = WAREHOUSE_STOCK[k].units
      ]_vars

\* C6 witness: a delivery has just served a category whose allotment does
\* not divide evenly among its three or more eligible products.
C6_Witness ==
    /\ lastStep.name = "delivery"
    /\ \E k \in 1..Len(WAREHOUSE_STOCK) :
          /\ lastStep.info[k] >= 3
          /\ WAREHOUSE_STOCK[k].units % lastStep.info[k] # 0


\* The units product oid gained in the step.
Received(oid) == heap'[oid].quantity - heap[oid].quantity

\* C25: a delivery gives the first (U mod N) of the N eligible products of a
\* category, in iteration order, floor(U/N) + 1 units each and the others
\* floor(U/N) units each, so that two eligible products of a category get
\* amounts at most 1 apart.
C25_EvenSplit ==
    [][ lastStep'.name = "delivery" =>
          \A k \in 1..Len(WAREHOUSE_STOCK) :
              LET eligible == products_in_cat(Cat, WAREHOUSE_STOCK[k].category)
                  U == WAREHOUSE_STOCK[k].units
                  N == Len(eligible)
              IN  N >= 1 =>
                      /\ \A i \in 1..N :
                             Received(eligible[i])
                                 = (U \div N) + (IF i <= U % N THEN 1 ELSE 0)
                      /\ \A a, b \in 1..N :
                             Received(eligible[a]) - Received(eligible[b]) \in {-1, 0, 1}
      ]_vars

\* C25 witness: the 40 units of Meat were split 14, 13, 13 among three
\* products that had 20 units each.
C25_Witness ==
    /\ lastStep.name = "delivery"
    /\ lastStep.info[3] = 3
    /\ LET meat == SelectSeq(get_all_products(Cat), LAMBDA oid : heap[oid].category = Meat)
       IN  /\ Len(meat) = 3
           /\ heap[meat[1]].quantity = 34
           /\ heap[meat[2]].quantity = 33
           /\ heap[meat[3]].quantity = 33

\* The categories the warehouse has an allotment for.
WarehouseCategories == {WAREHOUSE_STOCK[k].category : k \in 1..Len(WAREHOUSE_STOCK)}

\* C26: a delivery changes nothing but quantities, and only those of products
\* of a warehouse category that were at or below the eligibility ceiling:
\* products above the ceiling, products of categories without an allotment
\* and every price, name and category are as before, and no product is added
\* or removed.
C26_DeliveryFrame ==
    [][ lastStep'.name = "delivery" =>
          /\ inventory' = inventory
          /\ categories' = categories
          /\ Len(heap') = Len(heap)
          /\ \A oid \in RefSet(get_all_products(Cat)) :
                 /\ heap'[oid] = [heap[oid] EXCEPT !.quantity = heap'[oid].quantity]
                 /\ heap'[oid].quantity # heap[oid].quantity
                        => /\ heap[oid].category \in WarehouseCategories
                           /\ heap[oid].quantity <= DELIVERY_RESTOCK_MAX
      ]_vars

\* C26 witness: the truck has served a Meat product and left alone a Meat
\* product above the ceiling (26 units) and a Household product at 20 units.
C26_Witness ==
    /\ lastStep.name = "delivery"
    /\ lastStep.info[3] = 1
    /\ \E served, full, other \in RefSet(get_all_products(Cat)) :
          /\ heap[served].category = Meat /\ heap[served].quantity = 20 + 40
          /\ heap[full].category = Meat
          /\ heap[full].quantity = DELIVERY_RESTOCK_MAX + 1
          /\ heap[other].category = Household
          /\ heap[other].quantity = DELIVERY_RESTOCK_MAX - 5
\* ----------------------------------------------- GUI program (gui.py)
\* The foreground thread runs the button handlers and the callbacks posted
\* with root.after; the worker thread runs _run_simulation.  pc is the
\* worker's position: "idle" (no worker), "delivery", "sale", "sale_wait",
\* "surge", "surge_wait", "block", "customer", "item", "revert", "restock".

\* The selections of seed rows a load can bring in.
SeedSelections == {SEED_MEAT, SEED_ALCOHOL}

\* The quantities a cart item is bought in: of random_purchase_amount()'s
\* results, the ones tried.
PurchaseAmountSample == {12}

DayName == DAY_NAMES[day_index + 1]

\* Object numbers a list of (product, price) pairs refers to.
ItemRefs(items) == {items[i].p : i \in 1..Len(items)}

\* The objects the program still refers to besides the inventory, for given
\* values of the lists that hold them.
Held(cart_, suggestions_, items_, snapshot_) ==
    RefSet(cart_) \cup ItemRefs(suggestions_) \cup ItemRefs(items_) \cup ItemRefs(snapshot_)

\* The phase a day starts with, and the phases after the delivery and after
\* the Friday sale, for phases that the day does not have are skipped.
PhaseAfterSale_Again(day_name) == "sale"
PhaseAfterSale(day_name) ==
    IF ALCOHOL_SURGE_RATES[day_name] # 0 THEN "surge" ELSE "block"
PhaseAfterDelivery(day_name) ==
    IF day_name = "Friday" THEN "sale" ELSE PhaseAfterSale(day_name)
PhaseAtDayStart_NoTruck(day_name) == PhaseAfterDelivery(day_name)
PhaseAtDayStart(day_name) ==
    IF day_name \in DELIVERY_DAYS THEN "delivery" ELSE PhaseAfterDelivery(day_name)

\* Moving to phase: alcohol_originals = {} is executed between the sale phase
\* and the surge phase, so it is empty from "surge" on; the record of the
\* prices at the proposal is of the day too.
EnterPhase(phase) ==
    /\ pc' = phase
    /\ IF phase \in {"surge", "block"}
       THEN alcohol_originals' = <<>> /\ pre_surge' = <<>>
       ELSE UNCHANGED <<alcohol_originals, pre_surge>>

Step(name, info) == [name |-> name, info |-> info]

AppFrame == UNCHANGED <<storeVars, lastCall, cartVars>>

Init ==
    /\ CatalogEmpty /\ AppIdle
    /\ StoreIdle /\ lastCall = NoCall /\ CartIdle

\* --- foreground thread

\* "Load Inventory" / "Reload Inventory"
F_LoadInventory ==
    /\ load_btn = "normal"
    /\ loads < MaxLoads
    /\ \E rows \in SeedSelections :
          LET ids == [i \in 1..Len(rows) |-> IdPool(loads * SeedWidth + i)]
              c == seed_inventory(clear_inventory(Cat), rows, ids)
          IN  SetCat(Collect(c, Held(cart, sale_suggestions, alcohol_surge_items,
                                     pre_surge)))
    /\ load_btn' = "disabled"
    /\ loads' = loads + 1
    /\ lastStep' = Step("load", <<>>)
    /\ UNCHANGED <<sim_running, run_btn, queue, sale_suggestions, sale_approved,
                   alcohol_surge_items, alcohol_surge_approved, workerVars,
                   pre_surge, runs>>
    /\ AppFrame

\* The two early returns of _start_simulation.
start_refused_OnlyWhenEmpty(running, count) == count = 0
start_refused(running, count) == running \/ count = 0

\* _start_simulation
start_simulation(max_runs) ==
    /\ runs < max_runs
    /\ IF start_refused(sim_running, inventory.count)
       THEN UNCHANGED <<sim_running, run_btn, workerVars, pre_surge, runs>>
       ELSE /\ sim_running' = TRUE
            /\ run_btn' = "disabled"
            /\ runs' = runs + 1
            /\ day_index' = 0 /\ block_index' = 0
            /\ block_customers' = 0 /\ block_max_cart' = 0 /\ j' = 0 /\ cart' = <<>>
            /\ EnterPhase(PhaseAtDayStart(DAY_NAMES[1]))
    /\ lastStep' = Step("start", <<>>)
    /\ UNCHANGED <<catVars, load_btn, queue, sale_suggestions, sale_approved,
                   alcohol_surge_items, alcohol_surge_approved, loads>>
    /\ AppFrame

\* "Run Simulation" / "Run Again": the button calls _start_simulation when
\* it is enabled.
StartSimulation(max_runs) == run_btn = "normal" /\ start_simulation(max_runs)

F_StartSimulation == StartSimulation(MaxRuns)

\* "Auto Restock"
F_AutoRestock ==
    /\ SetCat(auto_restock(Cat))
    /\ lastStep' = Step("auto_restock",
                        << Len(get_low_stock(Cat)),
                           IF lastStep.name \in {"restock", "auto_restock"}
                              /\ lastStep.info[1] > 0 THEN 1 ELSE 0 >>)
    /\ UNCHANGED <<guiVars, workerVars, pre_surge, runs, loads>>
    /\ AppFrame

\* _show_sale_popup, posted by the worker: the user answers yes or no.
F_ShowSalePopup ==
    /\ queue # <<>> /\ Head(queue) = "show_sale_popup"
    /\ queue' = Tail(queue)
    /\ \E result \in {True, False} : sale_approved' = result
    /\ lastStep' = Step("sale_popup", <<>>)
    /\ UNCHANGED <<catVars, sim_running, load_btn, run_btn, sale_suggestions,
                   alcohol_surge_items, alcohol_surge_approved, workerVars,
                   pre_surge, runs, loads>>
    /\ AppFrame

\* _show_alcohol_surge_popup
F_ShowAlcoholSurgePopup ==
    /\ queue # <<>> /\ Head(queue) = "show_alcohol_surge_popup"
    /\ queue' = Tail(queue)
    /\ \E result \in {True, False} : alcohol_surge_approved' = result
    /\ lastStep' = Step("surge_popup", <<>>)
    /\ UNCHANGED <<catVars, sim_running, load_btn, run_btn, sale_suggestions,
                   sale_approved, alcohol_surge_items, workerVars,
                   pre_surge, runs, loads>>
    /\ AppFrame

\* _update_after_simulation, posted by the worker when the week is complete.
F_UpdateAfterSimulation ==
    /\ queue # <<>> /\ Head(queue) = "update_after_simulation"
    /\ queue' = Tail(queue)
    /\ sim_running' = FALSE
    /\ run_btn' = "normal"
    /\ load_btn' = "normal"
    /\ lastStep' = Step("update_after", <<>>)
    /\ UNCHANGED <<catVars, sale_suggestions, sale_approved, alcohol_surge_items,
                   alcohol_surge_approved, workerVars, pre_surge, runs, loads>>
    /\ AppFrame

\* --- worker thread (_run_simulation)

WorkerFrame ==
    /\ UNCHANGED <<sim_running, load_btn, run_btn, runs, loads>>
    /\ AppFrame

\* The eligible products per warehouse category, as the delivery finds them.
EligibleCounts(c) ==
    [k \in 1..Len(WAREHOUSE_STOCK) |-> Len(products_in_cat(c, WAREHOUSE_STOCK[k].category))]

\* The delivery truck of a delivery day.
W_Delivery ==
    /\ pc = "delivery"
    /\ SetCat(process_delivery(Cat).cat)
    /\ EnterPhase(PhaseAfterDelivery(DayName))
    /\ lastStep' = Step("delivery", EligibleCounts(Cat))
    /\ UNCHANGED <<queue, sale_suggestions, sale_approved, alcohol_surge_items,
                   alcohol_surge_approved, day_index, block_index, block_customers,
                   block_max_cart, j, cart>>
    /\ WorkerFrame

\* Friday: the suggestions are computed and, when there are any, the popup is
\* posted and the worker waits for the answer.
W_SalePropose ==
    /\ pc = "sale"
    /\ \E suggestions \in friday_sale_suggestions(Cat) :
          IF suggestions # <<>>
          THEN /\ sale_suggestions' = suggestions
               /\ sale_approved' = None
               /\ queue' = Append(queue, "show_sale_popup")
               /\ pc' = "sale_wait"
               /\ UNCHANGED <<alcohol_originals, pre_surge>>
               /\ lastStep' = Step("sale_proposed", <<>>)
          ELSE /\ EnterPhase(PhaseAfterSale(DayName))
               /\ lastStep' = Step("sale_none", <<>>)
               /\ UNCHANGED <<sale_suggestions, sale_approved, queue>>
    /\ UNCHANGED <<catVars, alcohol_surge_items, alcohol_surge_approved, day_index,
                   block_index, block_customers, block_max_cart, j, cart>>
    /\ WorkerFrame

W_SaleResolve_NoWait ==
    /\ pc = "sale_wait"
    /\ SetCat(resolve_sale(Cat, sale_suggestions, sale_approved))
    /\ EnterPhase(PhaseAfterSale(DayName))
    /\ lastStep' = Step("sale_resolved", <<>>)
    /\ UNCHANGED <<queue, sale_suggestions, sale_approved, alcohol_surge_items,
                   alcohol_surge_approved, day_index, block_index, block_customers,
                   block_max_cart, j, cart>>
    /\ WorkerFrame
\* The answer has arrived: the sale prices are applied or not.
W_SaleResolve ==
    /\ pc = "sale_wait"
    /\ sale_approved # None
    /\ SetCat(resolve_sale(Cat, sale_suggestions, sale_approved))
    /\ EnterPhase(PhaseAfterSale(DayName))
    /\ lastStep' = Step("sale_resolved", <<>>)
    /\ UNCHANGED <<queue, sale_suggestions, sale_approved, alcohol_surge_items,
                   alcohol_surge_approved, day_index, block_index, block_customers,
                   block_max_cart, j, cart>>
    /\ WorkerFrame

\* A surge day: the alcohol items and their surged prices; when there are
\* any, the popup is posted and the worker waits.
W_SurgePropose ==
    /\ pc = "surge"
    /\ \E items \in alcohol_items_of(Cat, ALCOHOL_SURGE_RATES[DayName]) :
          IF items # <<>>
          THEN /\ alcohol_surge_items' = items
               /\ alcohol_surge_approved' = None
               /\ queue' = Append(queue, "show_alcohol_surge_popup")
               /\ pc' = "surge_wait"
               /\ pre_surge' = [i \in 1..Len(items) |->
                                   [p |-> items[i].p, price |-> heap[items[i].p].price]]
               /\ lastStep' = Step("surge_proposed", <<>>)
          ELSE /\ pc' = "block"
               /\ lastStep' = Step("surge_none", <<>>)
               /\ UNCHANGED <<alcohol_surge_items, alcohol_surge_approved, queue,
                              pre_surge>>
    /\ UNCHANGED <<catVars, sale_suggestions, sale_approved, day_index, block_index,
                   block_customers, block_max_cart, j, cart, alcohol_originals>>
    /\ WorkerFrame

W_SurgeResolve ==
    /\ pc = "surge_wait"
    /\ alcohol_surge_approved # None
    /\ LET r == resolve_surge(Cat, alcohol_surge_items, alcohol_surge_approved)
       IN  /\ SetCat(r.cat)
           /\ alcohol_originals' = r.originals
    /\ pc' = "block"
    /\ lastStep' = Step("surge_resolved", <<>>)
    /\ UNCHANGED <<queue, sale_suggestions, sale_approved, alcohol_surge_items,
                   alcohol_surge_approved, day_index, block_index, block_customers,
                   block_max_cart, j, cart, pre_surge>>
    /\ WorkerFrame

\* The head of the time-block loop: the block's customers and cart limit.
BlockStart(served) ==
    /\ pc = "block"
    /\ LET plan == block_plan(DayName, block_index)
       IN  /\ block_customers' = Min(plan.customers, served)
           /\ block_max_cart' = plan.max_cart
    /\ j' = 1
    /\ pc' = "customer"
    /\ lastStep' = Step("block_start", <<>>)
    /\ UNCHANGED <<catVars, queue, sale_suggestions, sale_approved,
                   alcohol_surge_items, alcohol_surge_approved, day_index,
                   block_index, cart, alcohol_originals, pre_surge>>
    /\ WorkerFrame

\* In the week of Spec a block serves MaxBlockCustomers customers at most.
W_BlockStart == BlockStart(MaxBlockCustomers)

\* Leaving the customer loop of a block: the next block, or the end of day.
EndBlock_EndsDay ==
    /\ block_index' = 0
    /\ pc' = "revert"
    /\ UNCHANGED <<j, cart>>
EndBlock ==
    /\ block_index' = IF block_index + 1 < Len(TIME_BLOCKS) THEN block_index + 1 ELSE 0
    /\ pc' = IF block_index + 1 < Len(TIME_BLOCKS) THEN "block" ELSE "revert"
    /\ UNCHANGED <<j, cart>>

\* The head of the customer loop: the next customer's profile and cart; the
\* loop ends after block_customers customers, or when no product is left.
W_Customer ==
    /\ pc = "customer"
    /\ IF j > block_customers \/ get_all_products(Cat) = <<>>
       THEN /\ EndBlock
            /\ lastStep' = Step("block_end", <<>>)
       ELSE /\ \E profile_name \in get_profile_for_time_block(block_index) :
                 \E r \in pick_products_by_preference(
                              heap, get_all_products(Cat),
                              SHOPPER_PROFILES[profile_name],
                              Min(block_max_cart, MaxCartItems)) :
                     /\ ~r.raised
                     /\ cart' = r.cart
            /\ pc' = "item"
            /\ lastStep' = Step("customer", <<>>)
            /\ UNCHANGED <<block_index, j>>
    /\ UNCHANGED <<catVars, queue, sale_suggestions, sale_approved,
                   alcohol_surge_items, alcohol_surge_approved, day_index,
                   block_customers, block_max_cart, alcohol_originals, pre_surge>>
    /\ WorkerFrame

\* One iteration of the cart loop; after the last item the customer is done.
W_Item ==
    /\ pc = "item"
    /\ IF cart = <<>>
       THEN /\ j' = j + 1
            /\ pc' = "customer"
            /\ UNCHANGED <<catVars, cart>>
            /\ lastStep' = Step("customer_done", <<>>)
       ELSE \E qty \in random_purchase_amount \cap PurchaseAmountSample :
               LET product == Head(cart)
                   c == IF heap[product].quantity >= qty
                        THEN purchase(Cat, heap[product].id, qty).cat
                        ELSE Cat
               IN  /\ cart' = Tail(cart)
                   /\ SetCat(Collect(c, Held(cart', sale_suggestions,
                                             alcohol_surge_items, pre_surge)))
                   /\ UNCHANGED <<j, pc>>
                   /\ lastStep' = Step("item", <<qty>>)
    /\ UNCHANGED <<queue, sale_suggestions, sale_approved, alcohol_surge_items,
                   alcohol_surge_approved, day_index, block_index, block_customers,
                   block_max_cart, alcohol_originals, pre_surge>>
    /\ WorkerFrame

\* End of day: the surged prices are put back.
W_Revert ==
    /\ pc = "revert"
    /\ IF alcohol_originals # <<>>
       THEN SetCat(revert_surge(Cat, alcohol_originals))
       ELSE UNCHANGED catVars
    /\ pc' = "restock"
    /\ lastStep' = Step("revert", <<>>)
    /\ UNCHANGED <<queue, sale_suggestions, sale_approved, alcohol_surge_items,
                   alcohol_surge_approved, day_index, block_index, block_customers,
                   block_max_cart, j, cart, alcohol_originals, pre_surge>>
    /\ WorkerFrame

\* The overnight restock, then the next day, or the end of the week.
W_Restock ==
    /\ pc = "restock"
    /\ SetCat(overnight_restock(Cat).cat)
    /\ lastStep' = Step("restock",
                        << Len(get_low_stock(Cat)),
                           IF lastStep.name \in {"restock", "auto_restock"}
                              /\ lastStep.info[1] > 0 THEN 1 ELSE 0 >>)
    /\ IF day_index + 1 < Len(DAY_NAMES)
       THEN /\ day_index' = day_index + 1
            /\ EnterPhase(PhaseAtDayStart(DAY_NAMES[day_index + 2]))
            /\ UNCHANGED queue
       ELSE /\ day_index' = 0
            /\ pc' = "idle"
            /\ queue' = Append(queue, "update_after_simulation")
            /\ UNCHANGED <<alcohol_originals, pre_surge>>
    /\ UNCHANGED <<sale_suggestions, sale_approved, alcohol_surge_items,
                   alcohol_surge_approved, block_index, block_customers,
                   block_max_cart, j, cart>>
    /\ WorkerFrame

Foreground ==
    \/ F_LoadInventory \/ F_StartSimulation \/ F_AutoRestock
    \/ F_ShowSalePopup \/ F_ShowAlcoholSurgePopup \/ F_UpdateAfterSimulation

Worker ==
    \/ W_Delivery \/ W_SalePropose \/ W_SaleResolve \/ W_SurgePropose
    \/ W_SurgeResolve \/ W_BlockStart \/ W_Customer \/ W_Item \/ W_Revert
    \/ W_Restock

Next == Foreground \/ Worker

Spec == Init /\ [][Next]_vars

\* The catalog after the step being taken.
CatNext == [inventory |-> inventory', categories |-> categories', heap |-> heap']

\* C7: restock-to-target is idempotent.  A restock pass (overnight or the
\* Auto Restock button) leaves products at or above the target alone, and
\* leaves a catalog on which a second pass of either kind would restock
\* nothing; an Auto Restock pass right after a restock pass changes nothing.
C7_RestockIdempotent ==
    [][ lastStep'.name \in {"restock", "auto_restock"} =>
          /\ \A oid \in Products :
                heap[oid].quantity >= RESTOCK_TARGET
                    => heap'[oid].quantity = heap[oid].quantity
          /\ overnight_restock(CatNext).cat = CatNext
          /\ overnight_restock(CatNext).restocked = 0
          /\ auto_restock(CatNext) = CatNext
          /\ (lastStep.name \in {"restock", "auto_restock"}
              /\ lastStep'.name = "auto_restock") => UNCHANGED catVars
      ]_vars

\* C7 witness: Auto Restock has just run right after a pass that restocked
\* something, and found nothing to restock.
C7_Witness ==
    /\ lastStep.name = "auto_restock"
    /\ lastStep.info[2] = 1
    /\ lastStep.info[1] = 0
    /\ \E oid \in Products : heap[oid].quantity = RESTOCK_TARGET

\* C8: when the answer to the Friday sale proposal is no, neither the popup
\* that takes the answer nor the worker step that acts on it changes the
\* price of any product.
C8_DeclinedSaleKeepsPrices ==
    [][ ( \/ lastStep'.name = "sale_resolved" /\ sale_approved = False
          \/ lastStep'.name = "sale_popup" /\ sale_approved' = False )
        => /\ Len(heap') = Len(heap)
           /\ \A oid \in 1..Len(heap) : heap'[oid].price = heap[oid].price
      ]_vars

\* C8 witness: the worker has just acted on a declined proposal that offered
\* a product at a price other than its current one.
C8_Witness ==
    /\ lastStep.name = "sale_resolved"
    /\ sale_approved = False
    /\ \E i \in 1..Len(sale_suggestions) :
          /\ sale_suggestions[i].p \in Products
          /\ sale_suggestions[i].price # heap[sale_suggestions[i].p].price

\* C9: on a surge day with a proposal, once the end-of-day revert has run,
\* every alcohol product of the catalog that the proposal listed has the price
\* it had just before the proposal, whether the answer was yes or no and
\* whatever was sold in between.
C9_SurgeReverted ==
    (lastStep.name = "revert" /\ pre_surge # <<>>) =>
        \A i \in 1..Len(pre_surge) :
            pre_surge[i].p \in Products
                => heap[pre_surge[i].p].price = pre_surge[i].price

\* C9 witness: the revert has just run on a day whose surge was approved and
\* on which the surged product was sold.
C9_Witness ==
    /\ lastStep.name = "revert"
    /\ pre_surge # <<>>
    /\ alcohol_surge_approved = True
    /\ alcohol_originals # <<>>
    /\ \E i \in 1..Len(pre_surge) :
          /\ pre_surge[i].p \in Products
          /\ alcohol_surge_items[i].price # pre_surge[i].price
          /\ heap[pre_surge[i].p].quantity < SEED_ALCOHOL[1].quantity

\* C12: every ID in a category's list of the category index is the ID of a
\* product that is in the by-ID store and whose category is that label.
C12_CategoryIndexConsistent ==
    LET entries == HashMap_all_entries(categories)
    IN  \A e \in 1..Len(entries) :
            \A i \in 1..Len(entries[e].value) :
                LET product_id == entries[e].value[i]
                IN  /\ HashMap_has(inventory, product_id)
                    /\ heap[HashMap_get(inventory, product_id)].category = entries[e].key

\* The phase of the day the worker is in: 1 delivery, 2 clearance proposal,
\* 3 surge proposal, 4 time blocks, 5 end-of-day price revert, 6 overnight
\* restock; 0 when no simulation is running.
PhaseRank(p) ==
    CASE p = "delivery" -> 1
      [] p \in {"sale", "sale_wait"} -> 2
      [] p \in {"surge", "surge_wait"} -> 3
      [] p \in {"block", "customer", "item"} -> 4
      [] p = "revert" -> 5
      [] p = "restock" -> 6
      [] OTHER -> 0

\* Whether a day has the phase.
HasPhase(day_name, rank) ==
    CASE rank = 1 -> day_name \in DELIVERY_DAYS
      [] rank = 2 -> day_name = "Friday"
      [] rank = 3 -> ALCOHOL_SURGE_RATES[day_name] # 0
      [] OTHER -> TRUE

\* The first phase a day has after the phase of this rank.
NextRank(day_name, rank) ==
    CHOOSE k \in (rank + 1)..6 :
        /\ HasPhase(day_name, k)
        /\ \A m \in (rank + 1)..(k - 1) : ~HasPhase(day_name, m)

\* C13: the worker goes through the seven days in order, and through the
\* phases of each day in order, none skipped and none repeated: delivery on
\* delivery days only, the pricing proposals on their days only, the time
\* blocks one after the other, then the overnight restock; a product's
\* quantity goes down only inside a time block; the week is complete only
\* after the restock of the seventh day.
C13_PhaseOrder ==
    [][ /\ (pc' # pc \/ day_index' # day_index \/ block_index' # block_index) =>
            \/ /\ pc = "idle"
               /\ day_index' = 0 /\ block_index' = 0
               /\ PhaseRank(pc') = NextRank(DAY_NAMES[1], 0)
            \/ /\ pc # "idle" /\ pc' # "idle"
               /\ day_index' = day_index
               /\ PhaseRank(pc') # PhaseRank(pc) =>
                     /\ PhaseRank(pc') = NextRank(DayName, PhaseRank(pc))
                     /\ PhaseRank(pc) = 4 => block_index = Len(TIME_BLOCKS) - 1
                     /\ block_index' = 0
               /\ PhaseRank(pc') = PhaseRank(pc) =>
                     \/ block_index' = block_index
                     \/ /\ block_index' = block_index + 1
                        /\ pc = "customer" /\ pc' = "block"
            \/ /\ pc = "restock" /\ day_index + 1 < Len(DAY_NAMES)
               /\ day_index' = day_index + 1 /\ block_index' = 0
               /\ PhaseRank(pc') = NextRank(DAY_NAMES[day_index + 2], 0)
            \/ /\ pc = "restock" /\ day_index + 1 = Len(DAY_NAMES)
               /\ pc' = "idle"
        /\ \A oid \in 1..Len(heap) :
              ( /\ oid <= Len(heap')
                /\ heap[oid].id # <<>> /\ heap'[oid].id = heap[oid].id
                /\ heap'[oid].quantity < heap[oid].quantity )
              => pc = "item" /\ pc' = "item"
      ]_vars

\* C13 witness: the week is complete: the seventh day's restock has run and
\* the report is on its way to the foreground.
C13_Witness ==
    /\ pc = "idle"
    /\ runs = 1
    /\ lastStep.name = "restock"
    /\ queue # <<>> /\ queue[Len(queue)] = "update_after_simulation"

\* ------------------------------------------------ Fair GUI specification
\* ENABLED <<Worker>>_vars written out: where the worker thread stands and
\* whether the statement it is at can execute (the waits for an answer are
\* the only places it cannot).
WorkerEnabled ==
    \/ pc \in {"delivery", "block", "revert", "restock"}
    \/ pc = "sale" /\ friday_sale_suggestions(Cat) # {}
    \/ pc = "sale_wait" /\ sale_approved # None
    \/ pc = "surge" /\ alcohol_items_of(Cat, ALCOHOL_SURGE_RATES[DayName]) # {}
    \/ pc = "surge_wait" /\ alcohol_surge_approved # None
    \/ /\ pc = "customer"
       /\ \/ j > block_customers
          \/ get_all_products(Cat) = <<>>
          \/ \E profile_name \in get_profile_for_time_block(block_index) :
                 \E r \in pick_products_by_preference(
                              heap, get_all_products(Cat),
                              SHOPPER_PROFILES[profile_name],
                              Min(block_max_cart, MaxCartItems)) : ~r.raised
    \/ /\ pc = "item"
       /\ cart = <<>> \/ random_purchase_amount \cap PurchaseAmountSample # {}

\* The worker thread keeps being scheduled (weak fairness of Worker, with
\* its enabling condition as above); the Tk main loop keeps running the
\* callbacks the worker posted with root.after(0, ...), and the user answers
\* every popup.
FairSpec ==
    /\ Spec
    /\ []<>(~WorkerEnabled) \/ []<><<Worker>>_vars
    /\ WF_vars(F_ShowSalePopup)
    /\ WF_vars(F_ShowAlcoholSurgePopup)
    /\ WF_vars(F_UpdateAfterSimulation)

\* C14: a started simulation leads to the week being complete and
\* _update_after_simulation having taken the report, so that no wait for the
\* answer to a sale or surge proposal lasts forever.
C14_WeekCompletes ==
    sim_running ~> (~sim_running /\ pc = "idle" /\ lastStep.name = "update_after")

\* C14 witness: the report of a week in which both a sale and a surge were
\* proposed and answered has just been taken.
C14_Witness ==
    /\ lastStep.name = "update_after"
    /\ ~sim_running /\ runs = 1
    /\ sale_approved # None
    /\ alcohol_surge_approved # None

\* C15: while the simulation worker is running (it is somewhere in
\* _run_simulation), no foreground action changes the quantity or the price
\* of a product: every change to a product is a step of the worker.
C15_OnlyWorkerMutates ==
    [][ (pc # "idle" /\ Foreground) =>
            /\ Len(heap') = Len(heap)
            /\ \A oid \in 1..Len(heap) :
                   /\ heap'[oid].quantity = heap[oid].quantity
                   /\ heap'[oid].price = heap[oid].price ]_vars

\* -------------------------------------------------- Time-block specification
\* The time blocks of one day of a run, every day of the week in turn, with
\* every customer the block's count calls for.  The catalog holds one product
\* or, after a Reload that the worker overtook, none.
BlockSelections == {<<>>, SEED_ALCOHOL}

BlocksInit ==
    /\ \E rows \in BlockSelections :
          LET c == seed_inventory(EmptyCatalog, rows, [i \in 1..Len(rows) |-> IdPool(i)])
          IN  /\ inventory = c.inventory
              /\ categories = c.categories
              /\ heap = c.heap
    /\ day_index \in 0..(Len(DAY_NAMES) - 1)
    /\ sim_running = TRUE /\ load_btn = "disabled" /\ run_btn = "disabled"
    /\ queue = <<>>
    /\ sale_suggestions = <<>> /\ sale_approved = None
    /\ alcohol_surge_items = <<>> /\ alcohol_surge_approved = None
    /\ pc = "block" /\ block_index = 0
    /\ block_customers = 0 /\ block_max_cart = 0 /\ j = 0 /\ cart = <<>>
    /\ alcohol_originals = <<>>
    /\ lastStep = NoStep /\ pre_surge = <<>> /\ runs = 1 /\ loads = 1
    /\ StoreIdle /\ lastCall = NoCall /\ CartIdle

\* The head of the time-block loop, with the block's whole customer count.
B_BlockStart == BlockStart(block_plan(DayName, block_index).customers)

SpecBlocks == BlocksInit /\ [][B_BlockStart \/ W_Customer \/ W_Item]_vars

\* The customer count and cart limit of a block, by the day's override table
\* when it has one and by the day's traffic otherwise.
PlannedCustomers(day_name, b) ==
    IF day_name \in DOMAIN HIGH_TRAFFIC_BLOCKS
    THEN HIGH_TRAFFIC_BLOCKS[day_name][b].customers
    ELSE LET scaled == (TIME_BLOCKS[b].customers * DAY_TRAFFIC[day_name]) \div 100
         IN  IF scaled >= 1 THEN scaled ELSE 1
PlannedCart(day_name, b) ==
    IF day_name \in DOMAIN HIGH_TRAFFIC_BLOCKS
    THEN HIGH_TRAFFIC_BLOCKS[day_name][b].max_cart
    ELSE TIME_BLOCKS[b].max_cart

\* C29: a time block is planned with max(1, floor(nominal customers x the
\* day's traffic)) customers and the nominal cart limit, or with the numbers
\* of the day's override table when the day has one; the block then serves
\* its customers one by one up to that count, and ends before the count is
\* reached only when the catalog is empty.
C29_BlockCustomers ==
    /\ [][ lastStep'.name = "block_start" =>
             /\ block_customers' = PlannedCustomers(DayName, block_index + 1)
             /\ block_max_cart' = PlannedCart(DayName, block_index + 1)
             /\ j' = 1 ]_vars
    /\ [][ lastStep'.name = "customer" =>
             j <= block_customers /\ j' = j /\ block_customers' = block_customers ]_vars
    /\ [][ lastStep'.name = "customer_done" =>
             j' = j + 1 /\ block_customers' = block_customers ]_vars
    /\ [][ lastStep'.name = "block_end" =>
             \/ j = block_customers + 1
             \/ get_all_products(Cat) = <<>> /\ j <= block_customers ]_vars

\* C29 witness: the Friday evening block ended after the 15 customers of the
\* override table (the traffic-scaled count would be 13).
C29_Witness ==
    /\ lastStep.name = "block_end"
    /\ DayName = "Friday"
    /\ block_index = 3
    /\ block_customers = 15
    /\ j = 16
    /\ get_all_products(Cat) # <<>>

\* -------------------------------------------------- Reload specification
\* The GUI over two simulation runs.  After the first week both buttons are
\* enabled again, and "Run Again" disables only the run button, so "Reload
\* Inventory" can be clicked while the second worker runs.  _load_inventory
\* first deletes every entry and then seeds; the worker thread can be
\* scheduled between the two, and then finds the catalog empty.
ReloadSelections == {SEED_ALCOHOL}

ReloadFrame ==
    UNCHANGED <<storeVars, lastCall, cartIn, cartOut, week_failed, week_items_sold,
                week_revenue, report_data>>

\* _load_inventory up to `inventory.count = 0`.
R_ClearInventory ==
    /\ ~loading
    /\ load_btn = "normal"
    /\ loads < MaxLoads
    /\ SetCat(Collect(clear_inventory(Cat),
                      Held(cart, sale_suggestions, alcohol_surge_items, pre_surge)))
    /\ loading' = TRUE
    /\ lastStep' = Step("clear", <<>>)
    /\ UNCHANGED <<guiVars, workerVars, pre_surge, runs, loads>>
    /\ ReloadFrame

\* _load_inventory from seed_inventory() on.
R_SeedInventory ==
    /\ loading
    /\ \E rows \in ReloadSelections :
          LET ids == [i \in 1..Len(rows) |-> IdPool(loads * SeedWidth + i)]
          IN  SetCat(Collect(seed_inventory(Cat, rows, ids),
                             Held(cart, sale_suggestions, alcohol_surge_items,
                                  pre_surge)))
    /\ load_btn' = "disabled"
    /\ loads' = loads + 1
    /\ loading' = FALSE
    /\ lastStep' = Step("load", <<>>)
    /\ UNCHANGED <<sim_running, run_btn, queue, sale_suggestions, sale_approved,
                   alcohol_surge_items, alcohol_surge_approved, workerVars,
                   pre_surge, runs>>
    /\ ReloadFrame

\* The other handlers and callbacks run when the foreground thread is not
\* inside _load_inventory.
R_StartSimulation == ~loading /\ StartSimulation(MaxReruns)
R_ShowSalePopup == ~loading /\ F_ShowSalePopup
R_ShowAlcoholSurgePopup == ~loading /\ F_ShowAlcoholSurgePopup
R_UpdateAfterSimulation == ~loading /\ F_UpdateAfterSimulation

ReloadNext ==
    \/ R_ClearInventory \/ R_SeedInventory \/ R_StartSimulation
    \/ R_ShowSalePopup \/ R_ShowAlcoholSurgePopup \/ R_UpdateAfterSimulation
    \/ Worker

SpecReload == Init /\ [][ReloadNext]_vars

\* The worker thread keeps being scheduled, the foreground thread finishes
\* _load_inventory once it has begun it, the Tk main loop runs the callbacks
\* posted to it and the user answers every popup.
FairReload ==
    /\ SpecReload
    /\ []<>(~WorkerEnabled) \/ []<><<Worker>>_vars
    /\ []<>(~loading) \/ []<><<R_SeedInventory>>_vars
    /\ WF_vars(R_ShowSalePopup)
    /\ WF_vars(R_ShowAlcoholSurgePopup)
    /\ WF_vars(R_UpdateAfterSimulation)

\* The customer loop of a block has just been left before block_customers
\* customers were generated.
EarlyStop == lastStep.name = "block_end" /\ j <= block_customers

\* C21: the customer loop of a time block is left before its last customer
\* only when get_all_products() is empty, and then the worker goes on with
\* the next time block of the same day (after the last block, with the end
\* of the day); the day ends only with its overnight restock, which is still
\* reached, and the week still ends with the report handed over.
C21_EarlyStopEndsOnlyTheBlock ==
    /\ [][ (pc = "customer" /\ EarlyStop')
           => /\ get_all_products(Cat) = <<>>
              /\ day_index' = day_index
              /\ IF block_index + 1 < Len(TIME_BLOCKS)
                 THEN pc' = "block" /\ block_index' = block_index + 1
                 ELSE pc' = "revert" ]_vars
    /\ [][ day_index' # day_index => lastStep'.name \in {"restock", "start"} ]_vars
    /\ EarlyStop ~> lastStep.name = "restock"
    /\ EarlyStop ~> (~sim_running /\ pc = "idle" /\ lastStep.name = "update_after")

\* C21 witness: during a reload the worker has found the catalog empty at
\* the first customer of a block and stands at the next block of the day.
C21_Witness ==
    /\ EarlyStop /\ j = 1
    /\ loading /\ inventory.count = 0
    /\ pc = "block" /\ block_index > 0


\* The worker is at a cart item that its test `product.quantity >= qty` lets
\* through, so the step counts qty units as sold.
CountedSold ==
    /\ pc = "item" /\ cart # <<>>
    /\ lastStep'.name = "item"
    /\ heap[Head(cart)].quantity >= lastStep'.info[1]

\* C36: stock ledger of a simulation, step by step: a cart item counted as
\* sold takes exactly the counted units out of that product's stock, and the
\* quantity of a product of the catalog changes in no other way than by a
\* delivery or an overnight restock (upwards) or by such a counted sale.
C36_StockLedger ==
    [][ pc # "idle" =>
          /\ CountedSold =>
                heap'[Head(cart)].quantity = heap[Head(cart)].quantity - lastStep'.info[1]
          /\ \A oid \in RefSet(get_all_products(Cat)) \cap RefSet(get_all_products(Cat')) :
                heap'[oid].quantity # heap[oid].quantity =>
                    \/ /\ lastStep'.name \in {"delivery", "restock"}
                       /\ heap'[oid].quantity > heap[oid].quantity
                    \/ /\ CountedSold
                       /\ oid = Head(cart) ]_vars

\* C37: whenever a simulation is running (sim_running is true) the load /
\* reload button is disabled and the foreground thread is not inside
\* _load_inventory, in a second run as in the first.
C37_NoReloadWhileRunning ==
    sim_running => (load_btn = "disabled" /\ ~loading)
\* A surge that was approved is in force: the day's blocks up to the revert.
SurgeInForce(product_id) ==
    /\ pc \in {"block", "customer", "item", "revert"}
    /\ HasOriginal(alcohol_originals, product_id)

\* C22: once an approved clearance sale has been applied, every product of
\* the proposal has its sale price at every later point, the end of the week
\* and the time after it included; the only exception is a product under an
\* approved surge, and then the price the surge will put back at the end of
\* the day is the sale price.
C22_SalePriceStays ==
    (sale_approved = True /\ pc \notin {"sale", "sale_wait"}) =>
        \A i \in 1..Len(sale_suggestions) :
            LET p == heap[sale_suggestions[i].p]
            IN  IF SurgeInForce(p.id)
                THEN OriginalPrice(alcohol_originals, p.id) = sale_suggestions[i].price
                ELSE p.price = sale_suggestions[i].price

\* C22 witness: the week is over; a sale was approved for an alcohol product
\* with a sale price below its list price, and surges on it were approved too.
C22_Witness ==
    /\ pc = "idle" /\ lastStep.name = "update_after"
    /\ sale_approved = True /\ alcohol_surge_approved = True
    /\ sale_suggestions # <<>>
    /\ heap[sale_suggestions[1].p].category = Alcohol
    /\ sale_suggestions[1].price < 999

\* ------------------------------------------------ Clearance specification
\* friday_sale_suggestions() on the catalog of a Friday morning: up to
\* MaxSaleProducts products whose quantities lie around HIGH_STOCK_THRESHOLD.
ClearanceRows ==
    { [name |-> "Item", price |-> 400, quantity |-> quantity, category |-> Snacks] :
          quantity \in {HIGH_STOCK_THRESHOLD - 1, HIGH_STOCK_THRESHOLD, 120} }

ClearanceInit ==
    /\ \E n \in 0..MaxSaleProducts :
          \E rows \in [1..n -> ClearanceRows] :
              LET c == seed_inventory(EmptyCatalog, rows, [i \in 1..n |-> IdPool(i)])
              IN  /\ inventory = c.inventory
                  /\ categories = c.categories
                  /\ heap = c.heap
    /\ AppIdle
    /\ StoreIdle /\ lastCall = NoCall /\ CartIdle

\* suggestions = friday_sale_suggestions(); self._sale_suggestions = suggestions
ProposeSale ==
    /\ lastStep = NoStep
    /\ \E suggestions \in friday_sale_suggestions(Cat) :
          sale_suggestions' = suggestions
    /\ lastStep' = Step("sale_proposed", <<>>)
    /\ UNCHANGED <<catVars, sim_running, load_btn, run_btn, queue, sale_approved,
                   alcohol_surge_items, alcohol_surge_approved, workerVars,
                   pre_surge, runs, loads>>
    /\ AppFrame

SpecClearance == ClearanceInit /\ [][ProposeSale]_vars

\* C23: the clearance proposal holds at most 5 products, each with quantity
\* at or above HIGH_STOCK_THRESHOLD, and no product of the catalog that is
\* left out has a larger quantity than a product that is in it.
C23_TopFiveProposal ==
    lastStep.name = "sale_proposed" =>
        LET proposed == ItemRefs(sale_suggestions)
        IN  /\ Len(sale_suggestions) <= 5
            /\ \A p \in proposed : heap[p].quantity >= HIGH_STOCK_THRESHOLD
            /\ \A p \in proposed :
                   \A q \in RefSet(get_all_products(Cat)) \ proposed :
                       heap[q].quantity <= heap[p].quantity


\* ------------------------------------------------ Request specification
\* The GUI with _start_simulation called at any moment, whatever the state of
\* its button: what keeps a second worker from starting is then the handler
\* alone.
\* Requests made with a loaded inventory and no simulation running are
\* limited to MaxRuns; a request at any other moment is always possible.
F_StartRequest ==
    IF ~sim_running /\ inventory.count # 0
    THEN start_simulation(MaxRuns)
    ELSE start_simulation(runs + 1)

RequestNext ==
    \/ F_LoadInventory \/ F_StartRequest
    \/ F_ShowSalePopup \/ F_ShowAlcoholSurgePopup \/ F_UpdateAfterSimulation
    \/ Worker

SpecRequests == Init /\ [][RequestNext]_vars

\* A step of _start_simulation that started a worker thread.
ThreadStarted == lastStep'.name = "start" /\ runs' = runs + 1

\* C38: a worker thread is started only when none is running (sim_running is
\* false and the previous worker has left _run_simulation) and the inventory
\* is not empty; a start request at any other moment changes nothing of the
\* worker or of sim_running; and sim_running goes back to false only in
\* _update_after_simulation, after the worker has finished the week and
\* handed over its report.
C38_SingleWorker ==
    /\ [][ ThreadStarted =>
              /\ ~sim_running /\ pc = "idle" /\ inventory.count # 0
              /\ sim_running' ]_vars
    /\ [][ (lastStep'.name = "start" /\ (sim_running \/ inventory.count = 0)) =>
              /\ ~ThreadStarted
              /\ workerVars' = workerVars
              /\ sim_running' = sim_running ]_vars
    /\ [][ (sim_running /\ ~sim_running') =>
              /\ pc = "idle" /\ pc' = "idle"
              /\ lastStep'.name = "update_after"
              /\ queue # <<>> /\ Head(queue) = "update_after_simulation" ]_vars
    /\ [][ (pc # "idle" /\ pc' = "idle") =>
              /\ lastStep'.name = "restock" /\ day_index = Len(DAY_NAMES) - 1
              /\ sim_running /\ sim_running' ]_vars

\* C38 witness: a start request made while the worker is in the middle of the
\* week has just been refused.
C38_Witness ==
    /\ lastStep.name = "start"
    /\ sim_running /\ pc \notin {"idle"} /\ day_index > 0
    /\ runs = 1
\* C27: the overnight restock of every day brings every product that was at
\* or below the low-stock threshold to exactly the restock target and leaves
\* the quantity of every other product and every price alone, so that no
\* product is at or below the threshold when the next day starts; the day
\* ends with it whatever the answers to the day's proposals were, and the
\* step waits for no answer.
C27_OvernightRestock ==
    /\ [][ lastStep'.name = "restock" =>
             /\ Len(heap') = Len(heap)
             /\ \A oid \in Products :
                    /\ heap'[oid].price = heap[oid].price
                    /\ heap'[oid].quantity =
                           IF heap[oid].quantity <= LOW_STOCK_THRESHOLD
                           THEN RESTOCK_TARGET
                           ELSE heap[oid].quantity
                    /\ heap'[oid].quantity > LOW_STOCK_THRESHOLD
             /\ sale_approved' = sale_approved
             /\ alcohol_surge_approved' = alcohol_surge_approved ]_vars
    /\ [][ (sim_running /\ day_index' # day_index) => lastStep'.name = "restock" ]_vars
    /\ RESTOCK_TARGET > LOW_STOCK_THRESHOLD

\* C27 witness: the night after a declined Friday sale, a product that was
\* low is at the target.
C27_Witness ==
    /\ lastStep.name = "restock"
    /\ lastStep.info[1] >= 1
    /\ sale_approved = False
    /\ \E oid \in Products : heap[oid].quantity = RESTOCK_TARGET

\* The steps of the worker thread, by the name they leave in lastStep.
WorkerSteps ==
    {"delivery", "sale_none", "sale_proposed", "sale_resolved", "surge_none",
     "surge_proposed", "surge_resolved", "block_start", "block_end", "customer",
     "customer_done", "item", "revert", "restock"}

\* The worker has posted a proposal and the answer is not there yet.
AwaitingAnswer ==
    \/ pc = "sale_wait" /\ sale_approved = None
    \/ pc = "surge_wait" /\ alcohol_surge_approved = None

\* Every proposed product has its proposed price.
Applied(h, proposal) == \A i \in 1..Len(proposal) : h[proposal[i].p].price = proposal[i].price

\* C28: from the posting of a sale or surge proposal to the arrival of the
\* answer the worker takes no step: its position, day, block, customer and
\* cart stay as they are, and the catalog changes only by a button of the
\* foreground.  The worker leaves the wait only with an answer, and the step
\* that follows applies the proposed prices when the answer is yes and
\* leaves the catalog alone when it is no.
C28_SuspendedUntilAnswered ==
    /\ [][ AwaitingAnswer =>
             /\ lastStep'.name \notin WorkerSteps
             /\ UNCHANGED workerVars
             /\ lastStep'.name \notin {"load", "auto_restock"} => catVars' = catVars ]_vars
    /\ [][ (pc \in {"sale_wait", "surge_wait"} /\ catVars' # catVars) =>
             \/ lastStep'.name \in {"load", "auto_restock"}
             \/ lastStep'.name = "sale_resolved" /\ sale_approved = True
             \/ lastStep'.name = "surge_resolved" /\ alcohol_surge_approved = True ]_vars
    /\ [][ lastStep'.name = "sale_resolved" =>
             /\ pc = "sale_wait" /\ sale_approved \in {True, False}
             /\ IF sale_approved = True THEN Applied(heap', sale_suggestions)
                                        ELSE catVars' = catVars ]_vars
    /\ [][ lastStep'.name = "surge_resolved" =>
             /\ pc = "surge_wait" /\ alcohol_surge_approved \in {True, False}
             /\ IF alcohol_surge_approved = True
                THEN Applied(heap', alcohol_surge_items)
                ELSE catVars' = catVars ]_vars

\* C28 witness: after a wait, the surge was approved and its prices are on,
\* while the sale of the same day was declined.
C28_Witness ==
    /\ lastStep.name = "surge_resolved"
    /\ alcohol_surge_approved = True
    /\ sale_approved = False
    /\ alcohol_surge_items # <<>>
    /\ Applied(heap, alcohol_surge_items)
    /\ \E i \in 1..Len(pre_surge) : heap[pre_surge[i].p].price # pre_surge[i].price

\* ---------------------------------------------------- Cart specification
\* pick_products_by_preference as the simulation calls it: on the list
\* get_all_products() of a catalog (here of up to MaxCartProducts products,
\* in two profiled categories and one no profile lists), for a profile of
\* SHOPPER_PROFILES and the max_cart of a time block.
CartCategories == {Snacks, Produce, Household}
CartRows ==
    { [name |-> "Item", price |-> 400, quantity |-> 20, category |-> cat] :
          cat \in CartCategories }
MaxCartSizes == {TIME_BLOCKS[i].max_cart : i \in 1..Len(TIME_BLOCKS)}

CartInit ==
    /\ \E n \in 0..MaxCartProducts :
          \E rows \in [1..n -> CartRows] :
              LET c == seed_inventory(EmptyCatalog, rows, [i \in 1..n |-> IdPool(i)])
              IN  /\ inventory = c.inventory
                  /\ categories = c.categories
                  /\ heap = c.heap
    /\ AppIdle
    /\ StoreIdle /\ lastCall = NoCall /\ CartIdle

\* cart = pick_products_by_preference(products, profile, block_max_cart),
\* once per catalog, profile and cart size;
\* cartIn is the call's arguments, cartOut how it ended and what it returned.
BuildCart ==
    /\ cartOut = <<>>
    /\ \E name \in ProfileNames, max_items \in MaxCartSizes :
          LET products == get_all_products(Cat)
          IN  \E r \in pick_products_by_preference(heap, products,
                                                   SHOPPER_PROFILES[name], max_items) :
                  /\ cartIn' = <<products, name, max_items>>
                  /\ cartOut' = <<IF r.raised THEN "raised" ELSE "returned", r.cart>>
                  /\ UNCHANGED <<storeVars, catVars, lastCall, guiVars, workerVars,
                                 histVars, week_failed, week_items_sold,
                                 week_revenue, loading, report_data>>

SpecCart == CartInit /\ [][BuildCart]_vars

\* The elements of a list.
Elements(s) == {s[i] : i \in 1..Len(s)}

\* C10: a call of pick_products_by_preference returns (it does not raise) a
\* list whose elements are all members of products, none of them twice, and
\* the empty list when products is empty.
C10_CartIsSubset ==
    cartOut # <<>> =>
        /\ cartOut[1] = "returned"
        /\ Elements(cartOut[2]) \subseteq Elements(cartIn[1])
        /\ \A i, k \in 1..Len(cartOut[2]) : i # k => cartOut[2][i] # cartOut[2][k]
        /\ cartIn[1] = <<>> => cartOut[2] = <<>>

\* C10 witness: a call has just returned a cart of several products, fewer
\* than the catalog holds.
C10_Witness ==
    /\ cartOut # <<>>
    /\ cartOut[1] = "returned"
    /\ Len(cartOut[2]) >= 2
    /\ Len(cartOut[2]) < Len(cartIn[1])


\* C30: the cart a call returns has at most min(basket high, max_items,
\* number of products) items, where basket high is the upper end of the
\* profile's basket_size, and at least the lower end of basket_size clamped
\* to that maximum.
C30_CartSizeInBasketRange ==
    (cartOut # <<>> /\ cartOut[1] = "returned") =>
        LET basket == BASKET_SIZE[cartIn[2]]
            hi == Min(Min(basket.high, cartIn[3]), Len(cartIn[1]))
            lo == Min(basket.low, hi)
        IN  Len(cartOut[2]) \in lo..hi

\* ------------------------------------------- Cart-weights specification
\* pick_products_by_preference called with profiles whose category weights
\* may be 0 for Snacks and for Produce (the function takes any profile dict);
\* Household products get the default weight.
ProbeWeights == {0, 5}
ProbeProfiles ==
    { [time_weights |-> <<1, 1, 1, 1>>,
       category_weights |-> [i \in 1..Len(PROFILE_CATEGORIES) |->
                                IF PROFILE_CATEGORIES[i] = Snacks THEN snacks
                                ELSE IF PROFILE_CATEGORIES[i] = Produce THEN produce
                                ELSE 5]] :
          snacks \in ProbeWeights, produce \in ProbeWeights }

\* The weights the function gives the products of a call.
WeightsOf(h, products, profile) ==
    [i \in 1..Len(products) |-> CategoryWeight(profile, h[products[i]].category)]

BuildCartWith ==
    /\ cartOut = <<>>
    /\ \E profile \in ProbeProfiles, max_items \in MaxCartSizes :
          LET products == get_all_products(Cat)
          IN  \E r \in pick_products_by_preference(heap, products, profile, max_items) :
                  /\ cartIn' = <<products, profile, max_items>>
                  /\ cartOut' = <<IF r.raised THEN "raised" ELSE "returned", r.cart>>
                  /\ UNCHANGED <<storeVars, catVars, lastCall, guiVars, workerVars,
                                 histVars, week_failed, week_items_sold,
                                 week_revenue, loading, report_data>>

SpecCartWeights == CartInit /\ [][BuildCartWith]_vars

TimeWeightTables ==
    { [name \in ProfileNames |->
          [b \in 1..Len(TIME_BLOCKS) |->
              IF b = closed /\ name \in S THEN 0
              ELSE SHOPPER_PROFILES[name].time_weights[b]]] :
          S \in SUBSET ProfileNames, closed \in 1..Len(TIME_BLOCKS) }

ProfilesInit ==
    /\ CatalogEmpty /\ AppIdle
    /\ StoreIdle /\ lastCall = NoCall /\ CartIdle

SelectProfile ==
    /\ cartOut = <<>>
    /\ \E time_weights \in TimeWeightTables, b \in 0..(Len(TIME_BLOCKS) - 1) :
          \E r \in choose_profile(time_weights, b) :
              /\ cartIn' = <<time_weights, b>>
              /\ cartOut' = <<IF r.raised THEN "raised" ELSE "returned", r.name>>
    /\ UNCHANGED <<storeVars, catVars, lastCall, guiVars, workerVars, histVars,
                   week_failed, week_items_sold, week_revenue, loading, report_data>>

SpecProfiles == ProfilesInit /\ [][SelectProfile]_vars

AmountsInit ==
    /\ LET c == seed_inventory(EmptyCatalog, SEED_MEAT,
                               [i \in 1..Len(SEED_MEAT) |-> IdPool(i)])
       IN  /\ inventory = c.inventory
           /\ categories = c.categories
           /\ heap = c.heap
    /\ AppIdle
    /\ StoreIdle /\ lastCall = NoCall /\ CartIdle

\* One iteration of `for product in cart`, once per product, roll and
\* quantity: cartIn is the roll, cartOut the
\* quantity drawn and whether purchase was called.
DrawAmount ==
    /\ cartOut = <<>>
    /\ \E product \in DOMAIN heap, roll \in Rolls :
        \E qty \in amounts_for_roll(roll) :
            /\ cartIn' = <<roll>>
            /\ IF heap[product].quantity >= qty
               THEN LET r == purchase(Cat, heap[product].id, qty)
                    IN  /\ SetCat(r.cat)
                        /\ lastCall' = Call("purchase", heap[product].id, qty, 0, r.out)
                        /\ cartOut' = <<qty, "purchase">>
               ELSE /\ UNCHANGED <<catVars, lastCall>>
                    /\ cartOut' = <<qty, "skipped">>
            /\ UNCHANGED <<storeVars, guiVars, workerVars, histVars,
                           week_failed, week_items_sold, week_revenue, loading,
                           report_data>>

SpecAmounts == AmountsInit /\ [][DrawAmount]_vars

\* C35: every quantity drawn lies in the range of one of the configured
\* tiers, hence in 1..12, and every purchase call of the cart loop is made with
\* that quantity, positive, and is not rejected as an invalid amount.
C35_AmountInTier ==
    cartOut # <<>> =>
        /\ \E t \in 1..Len(PURCHASE_TIERS) :
              cartOut[1] \in PURCHASE_TIERS[t].min..PURCHASE_TIERS[t].max
        /\ cartOut[1] >= 1 /\ cartOut[1] <= 12
        /\ cartOut[2] = "purchase" =>
              /\ lastCall.op = "purchase"
              /\ lastCall.amount = cartOut[1]
              /\ lastCall.amount > 0
              /\ lastCall.out = "OK"

\* C35 witness: a roll of the rarest tier drew the largest quantity and the
\* purchase was made with it.
C35_Witness ==
    /\ cartIn # <<>> /\ cartIn[1] >= 90
    /\ cartOut = <<12, "purchase">>
    /\ lastCall.op = "purchase" /\ lastCall.amount = 12
\* ------------------------------------------------ Checkout specification
\* The customer loop of one time block of simulate(): customers
\* j = 1..block_customers, each with a cart that is charged item by item,
\* on a catalog whose products are in short or in ample supply.
CheckoutRows ==
    { [name |-> "Item", price |-> 400, quantity |-> quantity, category |-> cat] :
          quantity \in {2, 20}, cat \in {Snacks, Produce} }
\* The quantities drawn, one of each tier of random_purchase_amount().
CheckoutAmounts == {1, 4, 12}

\* The body of `for product in cart` for the quantity drawn: the catalog and
\* the counters after it.
buy_item_NoFailCount(c, failed, items_sold, revenue, product, qty) ==
    IF c.heap[product].quantity >= qty
    THEN [cat |-> purchase(c, c.heap[product].id, qty).cat,
          week_failed |-> failed,
          week_items_sold |-> items_sold + qty,
          week_revenue |-> revenue + c.heap[product].price * qty]
    ELSE [cat |-> c, week_failed |-> failed,
          week_items_sold |-> items_sold, week_revenue |-> revenue]
buy_item(c, failed, items_sold, revenue, product, qty) ==
    IF c.heap[product].quantity >= qty
    THEN [cat |-> purchase(c, c.heap[product].id, qty).cat,
          week_failed |-> failed,
          week_items_sold |-> items_sold + qty,
          week_revenue |-> revenue + c.heap[product].price * qty]
    ELSE [cat |-> c, week_failed |-> failed + 1,
          week_items_sold |-> items_sold, week_revenue |-> revenue]

CheckoutInit ==
    /\ \E n \in 1..MaxCheckoutProducts :
          \E rows \in [1..n -> CheckoutRows] :
              LET c == seed_inventory(EmptyCatalog, rows, [i \in 1..n |-> IdPool(i)])
              IN  /\ inventory = c.inventory
                  /\ categories = c.categories
                  /\ heap = c.heap
    /\ \E b \in 0..(Len(TIME_BLOCKS) - 1) :
          /\ block_index = b
          /\ block_max_cart = TIME_BLOCKS[b + 1].max_cart
    /\ block_customers \in 1..MaxCheckoutCustomers
    /\ j = 1 /\ cart = <<>> /\ pc = "customer"
    /\ day_index = 0 /\ alcohol_originals = <<>>
    /\ sim_running = FALSE /\ load_btn = "normal" /\ run_btn = "normal"
    /\ queue = <<>>
    /\ sale_suggestions = <<>> /\ sale_approved = None
    /\ alcohol_surge_items = <<>> /\ alcohol_surge_approved = None
    /\ lastStep = NoStep /\ pre_surge = <<>> /\ runs = 0 /\ loads = 0
    /\ StoreIdle /\ lastCall = NoCall /\ CartIdle

CheckoutFrame ==
    UNCHANGED <<storeVars, lastCall, guiVars, day_index, block_index, block_customers,
                block_max_cart, alcohol_originals, pre_surge, runs, loads, cartIn,
                cartOut, loading, report_data>>

\* The head of the customer loop: the loop ends after block_customers
\* customers, or at the break when no product is left; else the customer's
\* profile and cart.
NextCustomer ==
    /\ pc = "customer"
    /\ IF j > block_customers \/ get_all_products(Cat) = <<>>
       THEN /\ pc' = "done"
            /\ lastStep' = Step("block_end", <<>>)
            /\ UNCHANGED cart
       ELSE /\ \E profile_name \in get_profile_for_time_block(block_index) :
                 \E r \in pick_products_by_preference(
                              heap, get_all_products(Cat),
                              SHOPPER_PROFILES[profile_name],
                              Min(block_max_cart, MaxCheckoutCart)) :
                     /\ ~r.raised
                     /\ cart' = r.cart
            /\ pc' = "item"
            /\ lastStep' = Step("customer", <<>>)
    /\ UNCHANGED <<catVars, j, week_failed, week_items_sold, week_revenue>>
    /\ CheckoutFrame

\* One iteration of `for product in cart`; after the last item the next
\* customer.
CartItem ==
    /\ pc = "item"
    /\ IF cart = <<>>
       THEN /\ j' = j + 1
            /\ pc' = "customer"
            /\ lastStep' = Step("customer_done", <<>>)
            /\ UNCHANGED <<catVars, cart, week_failed, week_items_sold, week_revenue>>
       ELSE \E qty \in random_purchase_amount \cap CheckoutAmounts :
               LET r == buy_item(Cat, week_failed, week_items_sold, week_revenue,
                                 Head(cart), qty)
               IN  /\ SetCat(r.cat)
                   /\ week_failed' = r.week_failed
                   /\ week_items_sold' = r.week_items_sold
                   /\ week_revenue' = r.week_revenue
                   /\ cart' = Tail(cart)
                   /\ lastStep' = Step("item", <<qty>>)
                   /\ UNCHANGED <<j, pc>>
    /\ CheckoutFrame

CheckoutNext == NextCustomer \/ CartItem

SpecCheckout == CheckoutInit /\ [][CheckoutNext]_vars

\* C20: when the quantity drawn for a cart item exceeds the product's
\* quantity on hand, that iteration adds exactly one to week_failed, leaves
\* the catalog (so the product's quantity), week_revenue and week_items_sold
\* unchanged, and the loop goes on with the rest of the cart and, after it,
\* with the next customer.
C20_FailedPurchaseCounted ==
    [][ (/\ pc = "item" /\ cart # <<>>
         /\ lastStep'.name = "item"
         /\ lastStep'.info[1] > heap[Head(cart)].quantity)
        => /\ week_failed' = week_failed + 1
           /\ week_items_sold' = week_items_sold
           /\ week_revenue' = week_revenue
           /\ UNCHANGED <<inventory, categories, heap>>
           /\ cart' = Tail(cart)
           /\ pc' = "item"
           /\ UNCHANGED <<j, block_customers>> ]_vars

\* C20 witness: the second customer is being served after the first one's
\* cart had one item that failed and one that was sold.
C20_Witness ==
    /\ pc = "item" /\ j = 2
    /\ lastStep.name = "customer"
    /\ week_failed = 1
    /\ week_items_sold > 0
    /\ week_revenue = 400 * week_items_sold

\* ---------------------------------------------------- Week specification
\* simulate(): the seven days of the command-line simulation with the
\* tallies it keeps for its report.  report_data holds the locals
\* sales_by_product, low_stock_hits, sales_by_time_block, sales_by_day,
\* customers_by_day, deliveries_log, week_customers, day_revenue,
\* day_customers and block_revenue; money is in cents.

\* d[k] = d.get(k, 0) + v
DictAdd(d, k, v) ==
    [x \in DOMAIN d \cup {k} |->
        IF x = k THEN (IF k \in DOMAIN d THEN d[k] ELSE 0) + v ELSE d[x]]
\* d[k] = v
DictSet(d, k, v) == [x \in DOMAIN d \cup {k} |-> IF x = k THEN v ELSE d[x]]

\* sum(WAREHOUSE_STOCK.values())
RECURSIVE SumUnits(_)
SumUnits(k) == IF k > Len(WAREHOUSE_STOCK) THEN 0 ELSE WAREHOUSE_STOCK[k].units + SumUnits(k + 1)

\* The tallies of one successful purchase: `left` is product.quantity after
\* the purchase.
record_sale_NeverFlags(tallies, name, qty, item_cost, left) ==
    [tallies EXCEPT !.day_revenue = @ + item_cost,
                    !.block_revenue = @ + item_cost,
                    !.sales_by_product = DictAdd(@, name, qty)]

record_sale_NoBlockRevenue(tallies, name, qty, item_cost, left) ==
    [tallies EXCEPT !.day_revenue = @ + item_cost,
                    !.sales_by_product = DictAdd(@, name, qty),
                    !.low_stock_hits = IF left <= 10 THEN @ \cup {name} ELSE @]

record_sale(tallies, name, qty, item_cost, left) ==
    [tallies EXCEPT !.day_revenue = @ + item_cost,
                    !.block_revenue = @ + item_cost,
                    !.sales_by_product = DictAdd(@, name, qty),
                    !.low_stock_hits = IF left <= 10 THEN @ \cup {name} ELSE @]

WeekSelections == {SEED_MEAT}

WeekInit ==
    /\ \E rows \in WeekSelections :
          LET c == seed_inventory(EmptyCatalog, rows, [i \in 1..Len(rows) |-> IdPool(i)])
          IN  /\ inventory = c.inventory
              /\ categories = c.categories
              /\ heap = c.heap
    /\ day_index = 0 /\ block_index = 0 /\ pc = "day"
    /\ block_customers = 0 /\ block_max_cart = 0 /\ j = 0 /\ cart = <<>>
    /\ alcohol_originals = <<>>
    /\ sim_running = FALSE /\ load_btn = "normal" /\ run_btn = "normal"
    /\ queue = <<>>
    /\ sale_suggestions = <<>> /\ sale_approved = None
    /\ alcohol_surge_items = <<>> /\ alcohol_surge_approved = None
    /\ lastStep = NoStep /\ pre_surge = <<>> /\ runs = 0 /\ loads = 0
    /\ StoreIdle /\ lastCall = NoCall
    /\ cartIn = <<>> /\ cartOut = <<>> /\ loading = FALSE
    /\ week_failed = 0 /\ week_items_sold = 0 /\ week_revenue = 0
    /\ report_data = [sales_by_product |-> <<>>, low_stock_hits |-> {},
                      sales_by_time_block |-> <<>>, sales_by_day |-> <<>>,
                      customers_by_day |-> <<>>, deliveries_log |-> <<>>,
                      week_customers |-> 0, day_revenue |-> 0, day_customers |-> 0,
                      block_revenue |-> 0]

WeekFrame ==
    UNCHANGED <<storeVars, lastCall, sim_running, load_btn, run_btn, queue,
                sale_approved, alcohol_surge_items, alcohol_surge_approved,
                alcohol_originals, pre_surge, runs, loads, cartIn, cartOut, loading>>

\* The head of the day loop: the day's counters, the truck on delivery days
\* with its entry in deliveries_log, and on Friday the sale proposal with the
\* answer typed in.
Wk_DayStart ==
    /\ pc = "day"
    /\ LET delivery == DayName \in DELIVERY_DAYS
           c1 == IF delivery THEN process_delivery(Cat).cat ELSE Cat
           log == IF delivery
                  THEN Append(report_data.deliveries_log, <<DayName, SumUnits(1)>>)
                  ELSE report_data.deliveries_log
       IN  /\ report_data' = [report_data EXCEPT !.day_revenue = 0, !.day_customers = 0,
                                                 !.deliveries_log = log]
           /\ IF DayName = "Friday"
              THEN \E suggestions \in friday_sale_suggestions(c1), approve \in {True, False} :
                      IF suggestions # <<>> /\ approve = True
                      THEN /\ SetCat(apply_sales(c1, suggestions))
                           /\ sale_suggestions' = suggestions
                      ELSE /\ SetCat(c1)
                           /\ UNCHANGED sale_suggestions
              ELSE /\ SetCat(c1)
                   /\ UNCHANGED sale_suggestions
           /\ lastStep' = Step("day_start", <<IF delivery THEN 1 ELSE 0>>)
    /\ pc' = "block"
    /\ UNCHANGED <<day_index, block_index, block_customers, block_max_cart, j, cart,
                   week_failed, week_items_sold, week_revenue>>
    /\ WeekFrame

\* The head of the time-block loop; the customers served in the block are cut
\* to MaxBlockCustomers, and those of the week to MaxWeekCustomers.
Wk_BlockStart ==
    /\ pc = "block"
    /\ \E served \in 0..Min(scaled_customers(TIME_BLOCKS[block_index + 1].customers,
                                              DAY_TRAFFIC[DayName]), MaxBlockCustomers) :
          /\ report_data.week_customers + report_data.day_customers + served
                 <= MaxWeekCustomers
          /\ block_customers' = served
    /\ block_max_cart' = TIME_BLOCKS[block_index + 1].max_cart
    /\ report_data' = [report_data EXCEPT !.block_revenue = 0]
    /\ j' = 1
    /\ pc' = "customer"
    /\ lastStep' = Step("block_start", <<>>)
    /\ UNCHANGED <<catVars, sale_suggestions, day_index, block_index, cart,
                   week_failed, week_items_sold, week_revenue>>
    /\ WeekFrame

\* The head of the customer loop; when the loop is over, the block's revenue
\* goes to sales_by_time_block.
Wk_Customer ==
    /\ pc = "customer"
    /\ IF j > block_customers
       THEN /\ report_data' =
                   [report_data EXCEPT !.sales_by_time_block =
                       DictAdd(@, TIME_BLOCKS[block_index + 1].label,
                               report_data.block_revenue)]
            /\ block_index' = IF block_index + 1 < Len(TIME_BLOCKS) THEN block_index + 1 ELSE 0
            /\ pc' = IF block_index + 1 < Len(TIME_BLOCKS) THEN "block" ELSE "day_end"
            /\ lastStep' = Step("block_end", <<>>)
            /\ UNCHANGED cart
       ELSE IF get_all_products(Cat) = <<>>
       THEN /\ report_data' =
                   [report_data EXCEPT
                       !.day_customers = @ + 1,
                       !.sales_by_time_block =
                           DictAdd(@, TIME_BLOCKS[block_index + 1].label,
                                   report_data.block_revenue)]
            /\ block_index' = IF block_index + 1 < Len(TIME_BLOCKS) THEN block_index + 1 ELSE 0
            /\ pc' = IF block_index + 1 < Len(TIME_BLOCKS) THEN "block" ELSE "day_end"
            /\ lastStep' = Step("block_end", <<>>)
            /\ UNCHANGED cart
       ELSE /\ report_data' = [report_data EXCEPT !.day_customers = @ + 1]
            /\ \E profile_name \in get_profile_for_time_block(block_index) :
                 \E r \in pick_products_by_preference(
                              heap, get_all_products(Cat),
                              SHOPPER_PROFILES[profile_name],
                              Min(block_max_cart, MaxCartItems)) :
                     /\ ~r.raised
                     /\ cart' = r.cart
            /\ pc' = "item"
            /\ lastStep' = Step("customer", <<>>)
            /\ UNCHANGED block_index
    /\ UNCHANGED <<catVars, sale_suggestions, day_index, block_customers, block_max_cart,
                   j, week_failed, week_items_sold, week_revenue>>
    /\ WeekFrame

\* One iteration of `for product in cart`, with its tallies.
Wk_Item ==
    /\ pc = "item"
    /\ IF cart = <<>>
       THEN /\ j' = j + 1
            /\ pc' = "customer"
            /\ lastStep' = Step("customer_done", <<>>)
            /\ UNCHANGED <<catVars, cart, week_failed, week_items_sold, week_revenue,
                           report_data>>
       ELSE \E qty \in random_purchase_amount \cap PurchaseAmountSample :
               LET product == Head(cart)
                   item_cost == heap[product].price * qty
               IN  /\ IF heap[product].quantity >= qty
                      THEN LET c == purchase(Cat, heap[product].id, qty).cat
                           IN  /\ SetCat(c)
                               /\ week_items_sold' = week_items_sold + qty
                               /\ week_revenue' = week_revenue + item_cost
                               /\ report_data' =
                                     record_sale(report_data, heap[product].name, qty,
                                                 item_cost, c.heap[product].quantity)
                               /\ UNCHANGED week_failed
                      ELSE /\ week_failed' = week_failed + 1
                           /\ UNCHANGED <<catVars, week_items_sold, week_revenue,
                                          report_data>>
                   /\ cart' = Tail(cart)
                   /\ lastStep' = Step("item", <<qty>>)
                   /\ UNCHANGED <<j, pc>>
    /\ UNCHANGED <<sale_suggestions, day_index, block_index, block_customers,
                   block_max_cart>>
    /\ WeekFrame

\* End of day: the day's tallies and the overnight restock; after Sunday the
\* week is complete.
Wk_DayEnd ==
    /\ pc = "day_end"
    /\ report_data' = [report_data EXCEPT
                          !.sales_by_day = DictSet(@, DayName, report_data.day_revenue),
                          !.customers_by_day = DictSet(@, DayName, report_data.day_customers),
                          !.week_customers = @ + report_data.day_customers]
    /\ SetCat(overnight_restock(Cat).cat)
    /\ lastStep' = Step("restock", <<Len(get_low_stock(Cat))>>)
    /\ IF day_index + 1 < Len(DAY_NAMES)
       THEN day_index' = day_index + 1 /\ pc' = "day"
       ELSE day_index' = day_index /\ pc' = "done"
    /\ UNCHANGED <<sale_suggestions, block_index, block_customers, block_max_cart, j,
                   cart, week_failed, week_items_sold, week_revenue>>
    /\ WeekFrame

WeekNext == Wk_DayStart \/ Wk_BlockStart \/ Wk_Customer \/ Wk_Item \/ Wk_DayEnd

SpecWeek == WeekInit /\ [][WeekNext]_vars


\* A step of the cart loop that sold something.
Sold == pc = "item" /\ week_items_sold' > week_items_sold

\* C33: the week's low-stock set grows by exactly the name of the product
\* just bought when a successful purchase leaves that product at or below the
\* low-stock threshold, and changes in no other step: no restock, delivery or
\* sale takes a name out of it.
C33_LowStockHits ==
    [][report_data'.low_stock_hits =
          report_data.low_stock_hits \cup
              (IF Sold /\ heap'[Head(cart)].quantity <= LOW_STOCK_THRESHOLD
               THEN {heap[Head(cart)].name} ELSE {})]_vars

\* A product flagged earlier in the week stands above the threshold again
\* after a restock.
C33_Witness ==
    /\ pc \in {"day", "block", "customer", "item", "day_end", "done"}
    /\ report_data # <<>>
    /\ \E oid \in DOMAIN heap :
          /\ heap[oid].name \in report_data.low_stock_hits
          /\ heap[oid].quantity > LOW_STOCK_THRESHOLD
    /\ lastStep.name \in {"restock", "day_start"}

\* The units on the shelves: the quantities of the products of the catalog c.
RECURSIVE ShelfUnits(_, _)
ShelfUnits(c, k) ==
    IF k > Len(get_all_products(c)) THEN 0
    ELSE c.heap[get_all_products(c)[k]].quantity + ShelfUnits(c, k + 1)

\* C40: the units written to the deliveries log for a delivery day are the
\* units that day's delivery added to the product quantities.
C40_LoggedUnitsDelivered ==
    [][ Len(report_data'.deliveries_log) > Len(report_data.deliveries_log) =>
            LET entry == report_data'.deliveries_log[Len(report_data'.deliveries_log)]
            IN  /\ entry[1] = DayName
                /\ entry[2] = ShelfUnits(Cat', 1) - ShelfUnits(Cat, 1) ]_vars

\* sum(d.values())
RECURSIVE SumOver(_, _)
SumOver(d, keys) ==
    IF keys = {} THEN 0
    ELSE LET k == CHOOSE x \in keys : TRUE
         IN  d[k] + SumOver(d, keys \ {k})
DictSum(d) == SumOver(d, DOMAIN d)

\* The week is complete: the seven days have been processed.
WeekComplete == pc = "done"

====
